---- MODULE Spec2Model ----
(***************************************************************************)
(* The wallet ledger of TradeBridge: the Express routes of                 *)
(* src/backend/routes/wallet.js and the account routes /register and       *)
(* /demo-login of src/unnamed/part_003, over the SQLite tables users,      *)
(* wallets,                                                                *)
(* transactions and notifications (schema in src/backend/middleware/       *)
(* auth.js:187-314).  Every awaited getQuery/runQuery of a handler is one  *)
(* atomic step; the synchronous code that follows it, up to the next       *)
(* await, belongs to the same step.  An awaited query may instead reject   *)
(* (the store is unavailable), which runs the handler's catch block.       *)
(* Amounts are whole numbers of the smallest currency unit.                *)
(***************************************************************************)
EXTENDS Integers, Sequences, FiniteSets, TLC

VARIABLES
    users,          \* table users: set of rows [id, email, is_active]
    wallets,        \* table wallets: wallet id -> row
    transactions,   \* table transactions: sequence of rows, id = position
    notifications,  \* table notifications: sequence of rows
    uuids,          \* number of correlation references drawn from uuidv4()
    req,            \* the requests: handler position, locals and response
    arrived,        \* number of requests received so far
    pre             \* history: the tables as they were when the request of a
                    \* one-at-a-time run arrived

vars == <<users, wallets, transactions, notifications, uuids, req, arrived, pre>>

\* ---------------------------------------------------------------- bounds
MaxReq == 2         \* requests of a concurrent run
MaxOps == 1         \* requests of a one-at-a-time run
MaxAmount == 3      \* largest valid amount a request carries
InitBalance == 2    \* balance of the seeded wallets
MaxRows == 6        \* rows of transactions at which a stream of requests stops

Req == 1..MaxReq

\* ------------------------------------------------------------ row shapes
NoWallet == [id |-> 0, user_id |-> 0, currency |-> "", balance |-> 0, frozen_balance |-> 0]

NoMeta == [transferType |-> "", peerId |-> 0]

NoTx == [id |-> 0, wallet_id |-> 0, user_id |-> 0, type |-> "", amount |-> 0,
         currency |-> "", reference |-> 0, status |-> "", metadata |-> NoMeta]

NoBody == [type |-> "", amount |-> 0, currency |-> "", recipientEmail |-> ""]

\* req.query of GET /transactions; "" stands for a filter that is not given.
NoQuery == [page |-> 0, limit |-> 0, type |-> "", currency |-> ""]

\* A transaction as the read routes return it.
NoView == [id |-> 0, type |-> "", amount |-> 0, currency |-> "", reference |-> 0,
           status |-> "", metadata |-> NoMeta, createdAt |-> 0]

NoPagination == [page |-> 0, limit |-> 0, total |-> 0, pages |-> 0]

NoResponse == [status |-> 0, code |-> "", availableBalance |-> 0, newBalance |-> 0,
               transaction |-> NoTx, uuid |-> 0, balance |-> 0, frozenBalance |-> 0,
               transactionTypes |-> <<>>, totalTransactions |-> 0,
               recentTransactions |-> <<>>,
               transactions |-> <<>>, pagination |-> NoPagination, view |-> NoView]

Idle == [pc |-> "idle", op |-> "", user |-> 0, body |-> NoBody,
         wallet |-> NoWallet, resultId |-> 0, newBalance |-> 0, transaction |-> NoTx,
         recipient |-> 0, recipientWallet |-> NoWallet, transferUuid |-> 0,
         senderTransactionId |-> 0, recipientTransactionId |-> 0,
         transactionStats |-> <<>>, email |-> "",
         query |-> NoQuery, id |-> 0, list |-> <<>>,
         response |-> NoResponse, at |-> ""]

\* The tables a ledger operation may write.
Store == [wallets |-> wallets, transactions |-> transactions, notifications |-> notifications]

\* ------------------------------------------------------------- the store
\* db.get('SELECT * FROM wallets WHERE user_id = ?'): the first matching row.
WalletOfUserIn(ws, u) ==
    LET ids == {w \in DOMAIN ws : ws[w].user_id = u}
    IN  IF ids = {} THEN NoWallet
        ELSE ws[CHOOSE w \in ids : \A x \in ids : w <= x]

WalletOfUser(u) == WalletOfUserIn(wallets, u)

\* Mutant: the WHERE clause lost its email condition.
ActiveUserByEmail_AnyActive(email) ==
    LET rows == {x \in users : x.is_active = 1}
    IN  IF rows = {} THEN 0
        ELSE LET ids == {x.id : x \in rows} IN CHOOSE i \in ids : \A j \in ids : i <= j

\* Mutant: the WHERE clause lost its is_active condition.
ActiveUserByEmail_AnyStatus(email) ==
    LET rows == {x \in users : x.email = email}
    IN  IF rows = {} THEN 0
        ELSE LET ids == {x.id : x \in rows} IN CHOOSE i \in ids : \A j \in ids : i <= j

\* db.get('SELECT ... FROM users WHERE email = ? AND is_active = 1'): the id, 0 for no row.
ActiveUserByEmail(email) ==
    LET rows == {x \in users : x.email = email /\ x.is_active = 1}
    IN  IF rows = {} THEN 0
        ELSE LET ids == {x.id : x \in rows} IN CHOOSE i \in ids : \A j \in ids : i <= j

EmailOfUser(u) ==
    LET rows == {x \in users : x.id = u}
    IN  IF rows = {} THEN "" ELSE (CHOOSE x \in rows : TRUE).email

\* ------------------------------------------------------------ validation
TransactionTypes == {"credit", "debit", "transfer", "payment"}

\* Mutant: the balance check is made for type debit only.
DebitTypes_OnlyDebit == {"debit"}

DebitTypes == {"debit", "transfer", "payment"}

\* Joi.string().email(): the addresses of the model that are well formed.
WellFormedEmails == {"a@x.io", "b@x.io", "c@x.io", "d@x.io", "z@x.io"}

\* Mutant: Joi.number().min(0) in place of positive().
ValidTransaction_ZeroAllowed(body) ==
    /\ body.type \in TransactionTypes
    /\ body.amount >= 0
    /\ Len(body.currency) = 3

\* createTransactionSchema.validate: type, amount and currency.
ValidTransaction(body) ==
    /\ body.type \in TransactionTypes
    /\ body.amount > 0
    /\ Len(body.currency) = 3

\* Mutant: Joi.number().min(0) in place of positive() in transferSchema.
ValidTransfer_ZeroAllowed(body) ==
    /\ body.recipientEmail \in WellFormedEmails
    /\ body.amount >= 0
    /\ Len(body.currency) = 3

\* transferSchema.validate: recipientEmail, amount and currency.
ValidTransfer(body) ==
    /\ body.recipientEmail \in WellFormedEmails
    /\ body.amount > 0
    /\ Len(body.currency) = 3

AvailableBalance(w) == w.balance - w.frozen_balance

\* Mutant: the check compares the available balance with 0, not with the amount.
Insufficient_ForgetsAmount(w, amount) == AvailableBalance(w) < 0

Insufficient(w, amount) == AvailableBalance(w) < amount

\* ------------------------------------------------------------- responses
Respond(r, resp, from) ==
    req' = [req EXCEPT ![r] = [Idle EXCEPT !.pc = "done", !.op = req[r].op,
                                           !.user = req[r].user, !.body = req[r].body,
                                           !.query = req[r].query, !.id = req[r].id,
                                           !.response = resp, !.at = from]]

Error(status, code) == [NoResponse EXCEPT !.status = status, !.code = code]

\* Requests are numbered in their order of arrival.
NextToArrive(r) ==
    /\ req[r].pc = "idle"
    /\ IF r = 1 THEN TRUE ELSE req[r - 1].pc # "idle"

InFlight(r) == req[r].pc \notin {"idle", "done"}

\* A request is received.  The mode says how the run schedules arrivals:
\*   "concurrent"  at most MaxReq requests, interleaved at every await;
\*   "serial"      at most MaxOps requests, one at a time, each arriving when no
\*                 other request holds a slot; the tables are recorded in pre;
\*   "alone"       one at a time as well, while the answered requests keep
\*                 their slots, so that their responses can be compared;
\*   "stream"      requests keep arriving until transactions holds MaxRows rows;
\*   "quiet"       as "stream", one at a time: a request arrives when none is in
\*                 flight and no read holds a slot; the tables are recorded in pre.
Arrival(r, mode) ==
    /\ NextToArrive(r)
    /\ CASE mode = "concurrent" -> arrived < MaxReq
         [] mode = "serial" -> arrived < MaxOps /\ \A q \in Req : req[q].pc = "idle"
         [] mode = "alone" -> \A q \in Req : ~InFlight(q)
         [] mode = "stream" -> Len(transactions) < MaxRows
         [] mode = "quiet" -> /\ Len(transactions) < MaxRows
                              /\ \A q \in Req : ~InFlight(q) /\ req[q].op \in {"", "rt", "tf"}
    /\ arrived' = IF mode \in {"concurrent", "serial"} THEN arrived + 1 ELSE arrived
    /\ pre' = IF mode \in {"serial", "alone", "quiet"} THEN Store ELSE pre

\* The response has been sent; the handler's activation is gone.
Finish(r) ==
    /\ req[r].pc = "done"
    /\ req' = [req EXCEPT ![r] = Idle]
    /\ UNCHANGED <<users, wallets, transactions, notifications, uuids, arrived, pre>>

\* ------------------------------------------- POST /transactions (recordTransaction)
\* The request arrives: validation runs before the first await.
RT_Begin(r, mode, senders, bodies) ==
    /\ Arrival(r, mode)
    /\ \E u \in senders, body \in bodies :
          IF ~ValidTransaction(body)
            THEN req' = [req EXCEPT ![r] = [Idle EXCEPT !.pc = "done", !.op = "rt", !.user = u,
                             !.body = body, !.response = Error(400, "VALIDATION_ERROR"),
                             !.at = "rt_validate"]]
            ELSE req' = [req EXCEPT ![r] = [Idle EXCEPT !.pc = "rt_getWallet", !.op = "rt",
                             !.user = u, !.body = body]]
    /\ UNCHANGED <<users, wallets, transactions, notifications, uuids>>

\* await getQuery(wallet), then the wallet and balance checks.
RT_GetWallet(r) ==
    /\ req[r].pc = "rt_getWallet"
    /\ LET wallet == WalletOfUser(req[r].user)
           amount == req[r].body.amount
       IN  IF wallet = NoWallet
             THEN Respond(r, Error(404, "WALLET_NOT_FOUND"), "rt_getWallet")
           ELSE IF req[r].body.type \in DebitTypes /\ Insufficient(wallet, amount)
             THEN Respond(r, [Error(400, "INSUFFICIENT_BALANCE") EXCEPT
                                 !.availableBalance = AvailableBalance(wallet)], "rt_getWallet")
           ELSE req' = [req EXCEPT ![r].pc = "rt_insert", ![r].wallet = wallet]
    /\ UNCHANGED <<users, wallets, transactions, notifications, uuids, arrived, pre>>

\* Mutant: a payment is added to the balance, as a credit is.
RT_Insert_CreditsPayment(r) ==
    /\ req[r].pc = "rt_insert"
    /\ LET b == req[r].body
           id == Len(transactions) + 1
           row == [id |-> id, wallet_id |-> req[r].wallet.id, user_id |-> req[r].user,
                   type |-> b.type, amount |-> b.amount, currency |-> b.currency,
                   reference |-> 0, status |-> "pending", metadata |-> NoMeta]
       IN  /\ transactions' = Append(transactions, row)
           /\ req' = [req EXCEPT ![r].pc = "rt_updateWallet", ![r].resultId = id,
                          ![r].newBalance = IF b.type \in {"credit", "payment"}
                                              THEN req[r].wallet.balance + b.amount
                                              ELSE req[r].wallet.balance - b.amount]
    /\ UNCHANGED <<users, wallets, notifications, uuids, arrived, pre>>

\* await runQuery(INSERT INTO transactions ... 'pending'), then newBalance.
RT_Insert(r) ==
    /\ req[r].pc = "rt_insert"
    /\ LET b == req[r].body
           id == Len(transactions) + 1
           row == [id |-> id, wallet_id |-> req[r].wallet.id, user_id |-> req[r].user,
                   type |-> b.type, amount |-> b.amount, currency |-> b.currency,
                   reference |-> 0, status |-> "pending", metadata |-> NoMeta]
       IN  /\ transactions' = Append(transactions, row)
           /\ req' = [req EXCEPT ![r].pc = "rt_updateWallet", ![r].resultId = id,
                          ![r].newBalance = IF b.type = "credit"
                                              THEN req[r].wallet.balance + b.amount
                                              ELSE req[r].wallet.balance - b.amount]
    /\ UNCHANGED <<users, wallets, notifications, uuids, arrived, pre>>

\* Mutant: the UPDATE lost its WHERE clause and writes every wallet.
RT_UpdateWallet_NoWhere(r) ==
    /\ req[r].pc = "rt_updateWallet"
    /\ wallets' = [w \in DOMAIN wallets |-> [wallets[w] EXCEPT !.balance = req[r].newBalance]]
    /\ req' = [req EXCEPT ![r].pc = "rt_updateStatus"]
    /\ UNCHANGED <<users, transactions, notifications, uuids, arrived, pre>>

\* await runQuery(UPDATE wallets SET balance = newBalance WHERE id = wallet.id).
RT_UpdateWallet(r) ==
    /\ req[r].pc = "rt_updateWallet"
    /\ wallets' = [wallets EXCEPT ![req[r].wallet.id].balance = req[r].newBalance]
    /\ req' = [req EXCEPT ![r].pc = "rt_updateStatus"]
    /\ UNCHANGED <<users, transactions, notifications, uuids, arrived, pre>>

\* await runQuery(UPDATE transactions SET status = 'completed' WHERE id = result.id).
RT_UpdateStatus(r) ==
    /\ req[r].pc = "rt_updateStatus"
    /\ transactions' = [transactions EXCEPT ![req[r].resultId].status = "completed"]
    /\ req' = [req EXCEPT ![r].pc = "rt_getTransaction"]
    /\ UNCHANGED <<users, wallets, notifications, uuids, arrived, pre>>

\* await getQuery(SELECT * FROM transactions WHERE id = result.id).
RT_GetTransaction(r) ==
    /\ req[r].pc = "rt_getTransaction"
    /\ req' = [req EXCEPT ![r].pc = "rt_notify", ![r].transaction = transactions[req[r].resultId]]
    /\ UNCHANGED <<users, wallets, transactions, notifications, uuids, arrived, pre>>

\* await runQuery(INSERT INTO notifications ...), then res.status(201).
RT_Notify(r) ==
    /\ req[r].pc = "rt_notify"
    /\ notifications' = Append(notifications,
           [user_id |-> req[r].user, type |-> "payment", title |-> "Transaction Completed",
            transactionId |-> req[r].transaction.id])
    /\ Respond(r, [NoResponse EXCEPT !.status = 201, !.code = "CREATED",
                       !.transaction = req[r].transaction,
                       !.newBalance = req[r].newBalance], "rt_respond")
    /\ UNCHANGED <<users, wallets, transactions, uuids, arrived, pre>>

RT_AwaitPcs == {"rt_getWallet", "rt_insert", "rt_updateWallet", "rt_updateStatus",
                "rt_getTransaction", "rt_notify"}

\* Mutant: the catch block logs the error and answers as if the request had succeeded.
RT_Catch_AnswersCreated(r) ==
    /\ req[r].pc \in RT_AwaitPcs
    /\ Respond(r, [NoResponse EXCEPT !.status = 201, !.code = "CREATED",
                       !.transaction = req[r].transaction,
                       !.newBalance = req[r].newBalance], req[r].pc)
    /\ UNCHANGED <<users, wallets, transactions, notifications, uuids, arrived, pre>>

\* Mutant: the catch block deletes the row the request inserted.
RT_Catch_DeletesRow(r) ==
    /\ req[r].pc \in RT_AwaitPcs
    /\ transactions' = IF req[r].resultId > 0 /\ req[r].resultId = Len(transactions)
                         THEN SubSeq(transactions, 1, Len(transactions) - 1)
                         ELSE transactions
    /\ Respond(r, Error(500, "CREATE_ERROR"), req[r].pc)
    /\ UNCHANGED <<users, wallets, notifications, uuids, arrived, pre>>

\* The awaited query rejects: catch (error) answers 500 CREATE_ERROR.
RT_Catch(r) ==
    /\ req[r].pc \in RT_AwaitPcs
    /\ Respond(r, Error(500, "CREATE_ERROR"), req[r].pc)
    /\ UNCHANGED <<users, wallets, transactions, notifications, uuids, arrived, pre>>

\* ----------------------------------------------- POST /transfer (transferFunds)
\* The request arrives: validation runs before the first await.
TF_Begin(r, mode, senders, bodies) ==
    /\ Arrival(r, mode)
    /\ \E u \in senders, body \in bodies :
          IF ~ValidTransfer(body)
            THEN req' = [req EXCEPT ![r] = [Idle EXCEPT !.pc = "done", !.op = "tf", !.user = u,
                             !.body = body, !.response = Error(400, "VALIDATION_ERROR"),
                             !.at = "tf_validate"]]
            ELSE req' = [req EXCEPT ![r] = [Idle EXCEPT !.pc = "tf_getSenderWallet", !.op = "tf",
                             !.user = u, !.body = body]]
    /\ UNCHANGED <<users, wallets, transactions, notifications, uuids>>

\* await getQuery(senderWallet), then the wallet and balance checks.
TF_GetSenderWallet(r) ==
    /\ req[r].pc = "tf_getSenderWallet"
    /\ LET senderWallet == WalletOfUser(req[r].user)
       IN  IF senderWallet = NoWallet
             THEN Respond(r, Error(404, "SENDER_WALLET_NOT_FOUND"), "tf_getSenderWallet")
           ELSE IF Insufficient(senderWallet, req[r].body.amount)
             THEN Respond(r, [Error(400, "INSUFFICIENT_BALANCE") EXCEPT
                                 !.availableBalance = AvailableBalance(senderWallet)],
                          "tf_getSenderWallet")
           ELSE req' = [req EXCEPT ![r].pc = "tf_getRecipient", ![r].wallet = senderWallet]
    /\ UNCHANGED <<users, wallets, transactions, notifications, uuids, arrived, pre>>

\* Mutant: the sender is debited before the recipient is looked up.
TF_GetRecipient_DebitsFirst(r) ==
    /\ req[r].pc = "tf_getRecipient"
    /\ wallets' = [wallets EXCEPT ![req[r].wallet.id].balance =
                                       req[r].wallet.balance - req[r].body.amount]
    /\ LET recipient == ActiveUserByEmail(req[r].body.recipientEmail)
       IN  IF recipient = 0
             THEN Respond(r, Error(404, "RECIPIENT_NOT_FOUND"), "tf_getRecipient")
             ELSE req' = [req EXCEPT ![r].pc = "tf_getRecipientWallet", ![r].recipient = recipient]
    /\ UNCHANGED <<users, transactions, notifications, uuids, arrived, pre>>

\* await getQuery(recipient by email, is_active = 1).
TF_GetRecipient(r) ==
    /\ req[r].pc = "tf_getRecipient"
    /\ LET recipient == ActiveUserByEmail(req[r].body.recipientEmail)
       IN  IF recipient = 0
             THEN Respond(r, Error(404, "RECIPIENT_NOT_FOUND"), "tf_getRecipient")
             ELSE req' = [req EXCEPT ![r].pc = "tf_getRecipientWallet", ![r].recipient = recipient]
    /\ UNCHANGED <<users, wallets, transactions, notifications, uuids, arrived, pre>>

\* await getQuery(recipientWallet), then transferUuid = uuidv4().
TF_GetRecipientWallet(r) ==
    /\ req[r].pc = "tf_getRecipientWallet"
    /\ LET recipientWallet == WalletOfUser(req[r].recipient)
       IN  IF recipientWallet = NoWallet
             THEN /\ Respond(r, Error(404, "RECIPIENT_WALLET_NOT_FOUND"), "tf_getRecipientWallet")
                  /\ uuids' = uuids
             ELSE /\ req' = [req EXCEPT ![r].pc = "tf_insertSender",
                                 ![r].recipientWallet = recipientWallet,
                                 ![r].transferUuid = uuids + 1]
                  /\ uuids' = uuids + 1
    /\ UNCHANGED <<users, wallets, transactions, notifications, arrived, pre>>

\* await runQuery(INSERT INTO transactions ...): the sender's leg, status 'completed'.
TF_InsertSender(r) ==
    /\ req[r].pc = "tf_insertSender"
    /\ LET b == req[r].body
           id == Len(transactions) + 1
           row == [id |-> id, wallet_id |-> req[r].wallet.id, user_id |-> req[r].user,
                   type |-> "transfer", amount |-> b.amount, currency |-> b.currency,
                   reference |-> req[r].transferUuid, status |-> "completed",
                   metadata |-> [transferType |-> "outgoing", peerId |-> req[r].recipient]]
       IN  /\ transactions' = Append(transactions, row)
           /\ req' = [req EXCEPT ![r].pc = "tf_insertRecipient", ![r].senderTransactionId = id]
    /\ UNCHANGED <<users, wallets, notifications, uuids, arrived, pre>>

\* Mutant: the recipient's leg is stored under a reference of its own.
TF_InsertRecipient_OwnReference(r) ==
    /\ req[r].pc = "tf_insertRecipient"
    /\ LET b == req[r].body
           id == Len(transactions) + 1
           row == [id |-> id, wallet_id |-> req[r].recipientWallet.id,
                   user_id |-> req[r].recipient,
                   type |-> "credit", amount |-> b.amount, currency |-> b.currency,
                   reference |-> uuids + 1, status |-> "completed",
                   metadata |-> [transferType |-> "incoming", peerId |-> req[r].user]]
       IN  /\ transactions' = Append(transactions, row)
           /\ uuids' = uuids + 1
           /\ req' = [req EXCEPT ![r].pc = "tf_updateSender", ![r].recipientTransactionId = id]
    /\ UNCHANGED <<users, wallets, notifications, arrived, pre>>

\* await runQuery(INSERT INTO transactions ...): the recipient's leg, status 'completed'.
TF_InsertRecipient(r) ==
    /\ req[r].pc = "tf_insertRecipient"
    /\ LET b == req[r].body
           id == Len(transactions) + 1
           row == [id |-> id, wallet_id |-> req[r].recipientWallet.id,
                   user_id |-> req[r].recipient,
                   type |-> "credit", amount |-> b.amount, currency |-> b.currency,
                   reference |-> req[r].transferUuid, status |-> "completed",
                   metadata |-> [transferType |-> "incoming", peerId |-> req[r].user]]
       IN  /\ transactions' = Append(transactions, row)
           /\ req' = [req EXCEPT ![r].pc = "tf_updateSender", ![r].recipientTransactionId = id]
    /\ UNCHANGED <<users, wallets, notifications, uuids, arrived, pre>>

\* await runQuery(UPDATE wallets SET balance = senderWallet.balance - amount).
TF_UpdateSender(r) ==
    /\ req[r].pc = "tf_updateSender"
    /\ wallets' = [wallets EXCEPT ![req[r].wallet.id].balance =
                                       req[r].wallet.balance - req[r].body.amount]
    /\ req' = [req EXCEPT ![r].pc = "tf_updateRecipient"]
    /\ UNCHANGED <<users, transactions, notifications, uuids, arrived, pre>>

\* await runQuery(UPDATE wallets SET balance = recipientWallet.balance + amount).
TF_UpdateRecipient(r) ==
    /\ req[r].pc = "tf_updateRecipient"
    /\ wallets' = [wallets EXCEPT ![req[r].recipientWallet.id].balance =
                                       req[r].recipientWallet.balance + req[r].body.amount]
    /\ req' = [req EXCEPT ![r].pc = "tf_notifySender"]
    /\ UNCHANGED <<users, transactions, notifications, uuids, arrived, pre>>

\* await runQuery(INSERT INTO notifications ...): 'Transfer Sent'.
TF_NotifySender(r) ==
    /\ req[r].pc = "tf_notifySender"
    /\ notifications' = Append(notifications,
           [user_id |-> req[r].user, type |-> "payment", title |-> "Transfer Sent",
            transactionId |-> req[r].senderTransactionId])
    /\ req' = [req EXCEPT ![r].pc = "tf_notifyRecipient"]
    /\ UNCHANGED <<users, wallets, transactions, uuids, arrived, pre>>

\* Mutant: the second notification goes to the sender as well.
TF_NotifyRecipient_ToSender(r) ==
    /\ req[r].pc = "tf_notifyRecipient"
    /\ notifications' = Append(notifications,
           [user_id |-> req[r].user, type |-> "payment", title |-> "Transfer Received",
            transactionId |-> req[r].recipientTransactionId])
    /\ Respond(r, [NoResponse EXCEPT !.status = 200, !.code = "TRANSFERRED",
                       !.uuid = req[r].transferUuid,
                       !.newBalance = req[r].wallet.balance - req[r].body.amount],
               "tf_respond")
    /\ UNCHANGED <<users, wallets, transactions, uuids, arrived, pre>>

\* await runQuery(INSERT INTO notifications ...): 'Transfer Received', then res.json.
TF_NotifyRecipient(r) ==
    /\ req[r].pc = "tf_notifyRecipient"
    /\ notifications' = Append(notifications,
           [user_id |-> req[r].recipient, type |-> "payment", title |-> "Transfer Received",
            transactionId |-> req[r].recipientTransactionId])
    /\ Respond(r, [NoResponse EXCEPT !.status = 200, !.code = "TRANSFERRED",
                       !.uuid = req[r].transferUuid,
                       !.newBalance = req[r].wallet.balance - req[r].body.amount],
               "tf_respond")
    /\ UNCHANGED <<users, wallets, transactions, uuids, arrived, pre>>

TF_ReadPcs == {"tf_getSenderWallet", "tf_getRecipient", "tf_getRecipientWallet"}

TF_WritePcs == {"tf_insertSender", "tf_insertRecipient", "tf_updateSender",
                "tf_updateRecipient", "tf_notifySender", "tf_notifyRecipient"}

\* Mutant: when a notification insert fails, the catch block restores the balances.
TF_Catch_RestoresBalances(r) ==
    /\ req[r].pc \in TF_ReadPcs \cup TF_WritePcs
    /\ wallets' = IF req[r].pc \in {"tf_notifySender", "tf_notifyRecipient"}
                    THEN [wallets EXCEPT
                            ![req[r].wallet.id].balance = req[r].wallet.balance,
                            ![req[r].recipientWallet.id].balance = req[r].recipientWallet.balance]
                    ELSE wallets
    /\ Respond(r, Error(500, "TRANSFER_ERROR"), req[r].pc)
    /\ UNCHANGED <<users, transactions, notifications, uuids, arrived, pre>>

\* The awaited query rejects: catch (error) answers 500 TRANSFER_ERROR.
TF_Catch(r) ==
    /\ req[r].pc \in TF_ReadPcs \cup TF_WritePcs
    /\ Respond(r, Error(500, "TRANSFER_ERROR"), req[r].pc)
    /\ UNCHANGED <<users, wallets, transactions, notifications, uuids, arrived, pre>>

\* ------------------------------------------------------ GET /balance (getBalance)
GB_Begin(r, mode, readers) ==
    /\ Arrival(r, mode)
    /\ \E u \in readers :
          req' = [req EXCEPT ![r] = [Idle EXCEPT !.pc = "gb_getWallet", !.op = "gb", !.user = u]]
    /\ UNCHANGED <<users, wallets, transactions, notifications, uuids>>

\* Mutant: a user without a wallet is shown an empty wallet.
GB_GetWallet_EmptyWallet(r) ==
    /\ req[r].pc = "gb_getWallet"
    /\ LET wallet == WalletOfUser(req[r].user)
       IN  Respond(r, [NoResponse EXCEPT !.status = 200, !.code = "BALANCE",
                           !.balance = wallet.balance,
                           !.frozenBalance = wallet.frozen_balance,
                           !.availableBalance = wallet.balance - wallet.frozen_balance],
                   "gb_respond")
    /\ UNCHANGED <<users, wallets, transactions, notifications, uuids, arrived, pre>>

\* await getQuery(wallet), then res.json of the wallet view.
GB_GetWallet(r) ==
    /\ req[r].pc = "gb_getWallet"
    /\ LET wallet == WalletOfUser(req[r].user)
       IN  IF wallet = NoWallet
             THEN Respond(r, Error(404, "WALLET_NOT_FOUND"), "gb_getWallet")
             ELSE Respond(r, [NoResponse EXCEPT !.status = 200, !.code = "BALANCE",
                                  !.balance = wallet.balance,
                                  !.frozenBalance = wallet.frozen_balance,
                                  !.availableBalance = wallet.balance - wallet.frozen_balance],
                          "gb_respond")
    /\ UNCHANGED <<users, wallets, transactions, notifications, uuids, arrived, pre>>

\* The awaited query rejects: catch (error) answers 500 BALANCE_ERROR.
GB_Catch(r) ==
    /\ req[r].pc = "gb_getWallet"
    /\ Respond(r, Error(500, "BALANCE_ERROR"), "gb_getWallet")
    /\ UNCHANGED <<users, wallets, transactions, notifications, uuids, arrived, pre>>

\* ---------------------------------------------------------- GET /stats (getStats)
\* created_at DEFAULT CURRENT_TIMESTAMP: every row is given an instant of its
\* own, in the order of insertion.
CreatedAt(t) == t.id

RECURSIVE SumAmount(_)
SumAmount(rows) ==
    IF rows = <<>> THEN 0 ELSE Head(rows).amount + SumAmount(Tail(rows))

\* Mutant: the query lost its condition on status.
CompletedByType_AnyStatus(u) ==
    LET rows == SelectSeq(transactions, LAMBDA t : t.user_id = u)
        types == {rows[i].type : i \in DOMAIN rows}
    IN  [ty \in types |->
            LET ofType == SelectSeq(rows, LAMBDA t : t.type = ty)
            IN  [count |-> Len(ofType), total |-> SumAmount(ofType)]]

\* allQuery('SELECT type, COUNT(*) as count, SUM(amount) as total FROM transactions
\*           WHERE user_id = ? AND status = 'completed' GROUP BY type') on the rows txs.
CompletedByTypeIn(txs, u) ==
    LET rows == SelectSeq(txs, LAMBDA t : t.user_id = u /\ t.status = "completed")
        types == {rows[i].type : i \in DOMAIN rows}
    IN  [ty \in types |->
            LET ofType == SelectSeq(rows, LAMBDA t : t.type = ty)
            IN  [count |-> Len(ofType), total |-> SumAmount(ofType)]]

CompletedByType(u) == CompletedByTypeIn(transactions, u)

\* The LIMIT of the recent-transactions query.
RecentLimit == 5

\* allQuery('SELECT type, amount, currency, description, created_at FROM transactions
\*           WHERE user_id = ? ORDER BY created_at DESC LIMIT 5'), then the map.
RecentOfIn(txs, u) ==
    LET rows == SelectSeq(txs, LAMBDA t : t.user_id = u)
        n == Len(rows)
        k == IF n < RecentLimit THEN n ELSE RecentLimit
    IN  [i \in 1..k |-> [type |-> rows[n + 1 - i].type,
                         amount |-> rows[n + 1 - i].amount,
                         currency |-> rows[n + 1 - i].currency,
                         createdAt |-> CreatedAt(rows[n + 1 - i])]]

RecentOf(u) == RecentOfIn(transactions, u)

\* transactionStats.reduce((sum, stat) => sum + stat.count, 0)
RECURSIVE SumCount(_, _)
SumCount(stats, types) ==
    IF types = {} THEN 0
    ELSE LET ty == CHOOSE x \in types : TRUE
         IN  stats[ty].count + SumCount(stats, types \ {ty})

GS_Begin(r, mode, readers) ==
    /\ Arrival(r, mode)
    /\ \E u \in readers :
          req' = [req EXCEPT ![r] = [Idle EXCEPT !.pc = "gs_getWallet", !.op = "gs", !.user = u]]
    /\ UNCHANGED <<users, wallets, transactions, notifications, uuids>>

\* await getQuery(wallet), then the wallet check.
GS_GetWallet(r) ==
    /\ req[r].pc = "gs_getWallet"
    /\ LET wallet == WalletOfUser(req[r].user)
       IN  IF wallet = NoWallet
             THEN Respond(r, Error(404, "WALLET_NOT_FOUND"), "gs_getWallet")
             ELSE req' = [req EXCEPT ![r].pc = "gs_getStats", ![r].wallet = wallet]
    /\ UNCHANGED <<users, wallets, transactions, notifications, uuids, arrived, pre>>

\* await allQuery(counts and totals by type).
GS_GetStats(r) ==
    /\ req[r].pc = "gs_getStats"
    /\ req' = [req EXCEPT ![r].pc = "gs_getRecent",
                          ![r].transactionStats = CompletedByType(req[r].user)]
    /\ UNCHANGED <<users, wallets, transactions, notifications, uuids, arrived, pre>>

\* await allQuery(recent transactions), then res.json.
GS_GetRecent(r) ==
    /\ req[r].pc = "gs_getRecent"
    /\ LET wallet == req[r].wallet
           stats == req[r].transactionStats
       IN  Respond(r, [NoResponse EXCEPT !.status = 200, !.code = "STATS",
                           !.balance = wallet.balance,
                           !.frozenBalance = wallet.frozen_balance,
                           !.availableBalance = wallet.balance - wallet.frozen_balance,
                           !.totalTransactions = SumCount(stats, DOMAIN stats),
                           !.transactionTypes = stats,
                           !.recentTransactions = RecentOf(req[r].user)],
                   "gs_respond")
    /\ UNCHANGED <<users, wallets, transactions, notifications, uuids, arrived, pre>>

\* An awaited query rejects: catch (error) answers 500 STATS_ERROR.
GS_Catch(r) ==
    /\ req[r].pc \in {"gs_getWallet", "gs_getStats", "gs_getRecent"}
    /\ Respond(r, Error(500, "STATS_ERROR"), req[r].pc)
    /\ UNCHANGED <<users, wallets, transactions, notifications, uuids, arrived, pre>>

\* ------------------------------------------------------- GET /transactions
\* const { page = 1, limit = 20, type, currency } = req.query
DefaultPage == 1

DefaultLimit == 20

\* transactions.map(transaction => ({ id, uuid, type, amount, ... createdAt }))
ViewOf(t) ==
    [id |-> t.id, type |-> t.type, amount |-> t.amount, currency |-> t.currency,
     reference |-> t.reference, status |-> t.status, metadata |-> t.metadata,
     createdAt |-> CreatedAt(t)]

\* FROM transactions t JOIN wallets w ON t.wallet_id = w.id WHERE t.user_id = ?
\* [AND t.type = ?] [AND t.currency = ?], in the order of insertion.
MatchingIn(txs, ws, u, q) ==
    SelectSeq(txs, LAMBDA t : /\ t.user_id = u
                              /\ \E w \in DOMAIN ws : ws[w].id = t.wallet_id
                              /\ (q.type # "" => t.type = q.type)
                              /\ (q.currency # "" => t.currency = q.currency))

\* ... ORDER BY t.created_at DESC LIMIT limit OFFSET (page - 1) * limit, mapped.
ListIn(txs, ws, u, q) ==
    LET rows == MatchingIn(txs, ws, u, q)
        n == Len(rows)
        offset == (q.page - 1) * q.limit
        left == IF n > offset THEN n - offset ELSE 0
        k == IF left < q.limit THEN left ELSE q.limit
    IN  [i \in 1..k |-> ViewOf(rows[n + 1 - offset - i])]

\* SELECT COUNT(*) as total ... with the same WHERE clause.
CountIn(txs, ws, u, q) == Len(MatchingIn(txs, ws, u, q))

\* Math.ceil(total / limit)
Pages(total, limit) == (total + limit - 1) \div limit

GT_Begin(r, mode, readers, queries) ==
    /\ Arrival(r, mode)
    /\ \E u \in readers, q \in queries :
          req' = [req EXCEPT ![r] = [Idle EXCEPT !.pc = "gt_list", !.op = "gt", !.user = u,
                                                 !.query = q]]
    /\ UNCHANGED <<users, wallets, transactions, notifications, uuids>>

\* await allQuery(the page of the caller's transactions).
GT_List(r) ==
    /\ req[r].pc = "gt_list"
    /\ req' = [req EXCEPT ![r].pc = "gt_count",
                          ![r].list = ListIn(transactions, wallets, req[r].user, req[r].query)]
    /\ UNCHANGED <<users, wallets, transactions, notifications, uuids, arrived, pre>>

\* await getQuery(total count), then res.json.
GT_Count(r) ==
    /\ req[r].pc = "gt_count"
    /\ LET q == req[r].query
           total == CountIn(transactions, wallets, req[r].user, q)
       IN  Respond(r, [NoResponse EXCEPT !.status = 200, !.code = "TRANSACTIONS",
                           !.transactions = req[r].list,
                           !.pagination = [page |-> q.page, limit |-> q.limit,
                                           total |-> total,
                                           pages |-> Pages(total, q.limit)]],
                   "gt_respond")
    /\ UNCHANGED <<users, wallets, transactions, notifications, uuids, arrived, pre>>

\* An awaited query rejects: catch (error) answers 500 TRANSACTIONS_ERROR.
GT_Catch(r) ==
    /\ req[r].pc \in {"gt_list", "gt_count"}
    /\ Respond(r, Error(500, "TRANSACTIONS_ERROR"), req[r].pc)
    /\ UNCHANGED <<users, wallets, transactions, notifications, uuids, arrived, pre>>

\* --------------------------------------------------- GET /transactions/:id
\* getQuery('SELECT t.*, ... FROM transactions t JOIN wallets w ON t.wallet_id = w.id
\*           WHERE t.id = ? AND t.user_id = ?'): the row, NoTx for no row.
ByIdIn(txs, ws, u, id) ==
    LET rows == SelectSeq(txs, LAMBDA t : /\ t.id = id /\ t.user_id = u
                                          /\ \E w \in DOMAIN ws : ws[w].id = t.wallet_id)
    IN  IF rows = <<>> THEN NoTx ELSE Head(rows)

GI_Begin(r, mode, readers, ids) ==
    /\ Arrival(r, mode)
    /\ \E u \in readers, id \in ids :
          req' = [req EXCEPT ![r] = [Idle EXCEPT !.pc = "gi_get", !.op = "gi", !.user = u,
                                                 !.id = id]]
    /\ UNCHANGED <<users, wallets, transactions, notifications, uuids>>

\* Mutant: the query lost its condition on user_id.
GI_Get_AnyOwner(r) ==
    /\ req[r].pc = "gi_get"
    /\ LET rows == SelectSeq(transactions, LAMBDA t : t.id = req[r].id)
       IN  IF rows = <<>>
             THEN Respond(r, Error(404, "NOT_FOUND"), "gi_get")
             ELSE Respond(r, [NoResponse EXCEPT !.status = 200, !.code = "TRANSACTION",
                                  !.view = ViewOf(Head(rows))], "gi_respond")
    /\ UNCHANGED <<users, wallets, transactions, notifications, uuids, arrived, pre>>

\* await getQuery(the caller's transaction with this id), then 404 or res.json.
GI_Get(r) ==
    /\ req[r].pc = "gi_get"
    /\ LET transaction == ByIdIn(transactions, wallets, req[r].user, req[r].id)
       IN  IF transaction = NoTx
             THEN Respond(r, Error(404, "NOT_FOUND"), "gi_get")
             ELSE Respond(r, [NoResponse EXCEPT !.status = 200, !.code = "TRANSACTION",
                                  !.view = ViewOf(transaction)], "gi_respond")
    /\ UNCHANGED <<users, wallets, transactions, notifications, uuids, arrived, pre>>

\* The awaited query rejects: catch (error) answers 500 GET_ERROR.
GI_Catch(r) ==
    /\ req[r].pc = "gi_get"
    /\ Respond(r, Error(500, "GET_ERROR"), "gi_get")
    /\ UNCHANGED <<users, wallets, transactions, notifications, uuids, arrived, pre>>

\* --------------------------------------- POST /register and POST /demo-login
\* getQuery('SELECT ... FROM users WHERE email = ?'): is there such a row.
UserWithEmail(email) == \E x \in users : x.email = email

\* INSERT INTO users: id INTEGER PRIMARY KEY AUTOINCREMENT, is_active DEFAULT 1.
NewUser(email) == [id |-> Cardinality(users) + 1, email |-> email, is_active |-> 1]

\* INSERT INTO wallets (uuid, user_id, currency, balance): frozen_balance DEFAULT 0.
NewWallet(u, balance) ==
    [id |-> Len(wallets) + 1, user_id |-> u, currency |-> "USD",
     balance |-> balance, frozen_balance |-> 0]

\* The balance /demo-login gives to the wallet it creates.
DemoBalance == 10000

\* The request arrives: registerSchema.validate runs before the first await.
RG_Begin(r, mode, emails) ==
    /\ Arrival(r, mode)
    /\ \E e \in emails :
          IF e \notin WellFormedEmails
            THEN req' = [req EXCEPT ![r] = [Idle EXCEPT !.pc = "done", !.op = "rg", !.email = e,
                             !.response = Error(400, "VALIDATION_ERROR"), !.at = "rg_validate"]]
            ELSE req' = [req EXCEPT ![r] = [Idle EXCEPT !.pc = "rg_getUser", !.op = "rg",
                             !.email = e]]
    /\ UNCHANGED <<users, wallets, transactions, notifications, uuids>>

\* await getQuery(existingUser).
RG_GetUser(r) ==
    /\ req[r].pc = "rg_getUser"
    /\ IF UserWithEmail(req[r].email)
         THEN Respond(r, Error(409, "USER_EXISTS"), "rg_getUser")
         ELSE req' = [req EXCEPT ![r].pc = "rg_hash"]
    /\ UNCHANGED <<users, wallets, transactions, notifications, uuids, arrived, pre>>

\* await bcrypt.hash(password, saltRounds).
RG_Hash(r) ==
    /\ req[r].pc = "rg_hash"
    /\ req' = [req EXCEPT ![r].pc = "rg_insertUser"]
    /\ UNCHANGED <<users, wallets, transactions, notifications, uuids, arrived, pre>>

\* await runQuery(INSERT INTO users ...): email is UNIQUE, a second row with the
\* same email is rejected and the catch block answers.
RG_InsertUser(r) ==
    /\ req[r].pc = "rg_insertUser"
    /\ IF UserWithEmail(req[r].email)
         THEN /\ Respond(r, Error(500, "REGISTRATION_ERROR"), "rg_insertUser")
              /\ users' = users
         ELSE /\ users' = users \cup {NewUser(req[r].email)}
              /\ req' = [req EXCEPT ![r].pc = "rg_insertWallet",
                                    ![r].resultId = NewUser(req[r].email).id]
    /\ UNCHANGED <<wallets, transactions, notifications, uuids, arrived, pre>>

\* await runQuery(INSERT INTO wallets ... 0.00).
RG_InsertWallet(r) ==
    /\ req[r].pc = "rg_insertWallet"
    /\ wallets' = Append(wallets, NewWallet(req[r].resultId, 0))
    /\ req' = [req EXCEPT ![r].pc = "rg_insertSession"]
    /\ UNCHANGED <<users, transactions, notifications, uuids, arrived, pre>>

\* await runQuery(INSERT INTO user_sessions ...), then res.status(201).
RG_InsertSession(r) ==
    /\ req[r].pc = "rg_insertSession"
    /\ Respond(r, [NoResponse EXCEPT !.status = 201, !.code = "REGISTERED"], "rg_respond")
    /\ UNCHANGED <<users, wallets, transactions, notifications, uuids, arrived, pre>>

\* An awaited query rejects: catch (error) answers 500 REGISTRATION_ERROR.
RG_Catch(r) ==
    /\ req[r].pc \in {"rg_getUser", "rg_insertUser", "rg_insertWallet", "rg_insertSession"}
    /\ Respond(r, Error(500, "REGISTRATION_ERROR"), req[r].pc)
    /\ UNCHANGED <<users, wallets, transactions, notifications, uuids, arrived, pre>>

\* The request arrives: the email of the body is not validated.
DL_Begin(r, mode, emails) ==
    /\ Arrival(r, mode)
    /\ \E e \in emails :
          req' = [req EXCEPT ![r] = [Idle EXCEPT !.pc = "dl_getUser", !.op = "dl", !.email = e]]
    /\ UNCHANGED <<users, wallets, transactions, notifications, uuids>>

\* await getQuery(user): an existing user is logged in as it is.
DL_GetUser(r) ==
    /\ req[r].pc = "dl_getUser"
    /\ IF UserWithEmail(req[r].email)
         THEN Respond(r, [NoResponse EXCEPT !.status = 200, !.code = "DEMO_LOGIN"], "dl_respond")
         ELSE req' = [req EXCEPT ![r].pc = "dl_hash"]
    /\ UNCHANGED <<users, wallets, transactions, notifications, uuids, arrived, pre>>

\* await bcrypt.hash('demo123', 12).
DL_Hash(r) ==
    /\ req[r].pc = "dl_hash"
    /\ req' = [req EXCEPT ![r].pc = "dl_insertUser"]
    /\ UNCHANGED <<users, wallets, transactions, notifications, uuids, arrived, pre>>

\* await runQuery(INSERT INTO users ...), email UNIQUE as above.
DL_InsertUser(r) ==
    /\ req[r].pc = "dl_insertUser"
    /\ IF UserWithEmail(req[r].email)
         THEN /\ Respond(r, Error(500, "DEMO_LOGIN_ERROR"), "dl_insertUser")
              /\ users' = users
         ELSE /\ users' = users \cup {NewUser(req[r].email)}
              /\ req' = [req EXCEPT ![r].pc = "dl_insertWallet",
                                    ![r].resultId = NewUser(req[r].email).id]
    /\ UNCHANGED <<wallets, transactions, notifications, uuids, arrived, pre>>

\* await runQuery(INSERT INTO wallets ... 10000.00), then res.json.
DL_InsertWallet(r) ==
    /\ req[r].pc = "dl_insertWallet"
    /\ wallets' = Append(wallets, NewWallet(req[r].resultId, DemoBalance))
    /\ Respond(r, [NoResponse EXCEPT !.status = 200, !.code = "DEMO_LOGIN"], "dl_respond")
    /\ UNCHANGED <<users, transactions, notifications, uuids, arrived, pre>>

\* An awaited query rejects: catch (error) answers 500 DEMO_LOGIN_ERROR.
DL_Catch(r) ==
    /\ req[r].pc \in {"dl_getUser", "dl_insertUser", "dl_insertWallet"}
    /\ Respond(r, Error(500, "DEMO_LOGIN_ERROR"), req[r].pc)
    /\ UNCHANGED <<users, wallets, transactions, notifications, uuids, arrived, pre>>

\* ---------------------------------------------------------- initial state
SeedUsers == {[id |-> 1, email |-> "a@x.io", is_active |-> 1],
              [id |-> 2, email |-> "b@x.io", is_active |-> 1],
              [id |-> 3, email |-> "c@x.io", is_active |-> 1]}

SeedWallet(u, balance) ==
    [id |-> u, user_id |-> u, currency |-> "USD", balance |-> balance, frozen_balance |-> 0]

Init ==
    /\ users = SeedUsers
    /\ wallets = [w \in {1, 2} |-> SeedWallet(w, InitBalance)]
    /\ transactions = <<>>
    /\ notifications = <<>>
    /\ uuids = 0
    /\ req = [r \in Req |-> Idle]
    /\ arrived = 0
    /\ pre = Store

Amounts == 1..MaxAmount

\* What the requests of a concurrent run carry: valid bodies, users with a wallet.
WalletOwners == {1, 2}

TransactionBodies ==
    {[type |-> t, amount |-> a, currency |-> "USD", recipientEmail |-> ""] :
        t \in {"credit", "debit"}, a \in Amounts}

TransferBodies ==
    {[type |-> "", amount |-> a, currency |-> "USD", recipientEmail |-> e] :
        a \in Amounts, e \in {"a@x.io", "b@x.io"}}

Next ==
    \E r \in Req :
        \/ RT_Begin(r, "concurrent", WalletOwners, TransactionBodies)
        \/ RT_GetWallet(r)
        \/ RT_Insert(r)
        \/ RT_UpdateWallet(r)
        \/ RT_UpdateStatus(r)
        \/ RT_GetTransaction(r)
        \/ RT_Notify(r)
        \/ RT_Catch(r)
        \/ TF_Begin(r, "concurrent", WalletOwners, TransferBodies)
        \/ TF_GetSenderWallet(r)
        \/ TF_GetRecipient(r)
        \/ TF_GetRecipientWallet(r)
        \/ TF_InsertSender(r)
        \/ TF_InsertRecipient(r)
        \/ TF_UpdateSender(r)
        \/ TF_UpdateRecipient(r)
        \/ TF_NotifySender(r)
        \/ TF_NotifyRecipient(r)
        \/ TF_Catch(r)
        \/ GB_Begin(r, "concurrent", WalletOwners)
        \/ GB_GetWallet(r)
        \/ GB_Catch(r)

Spec == Init /\ [][Next]_vars

\* ------------------------------------------------ one request at a time
\* Every body a client may send, malformed ones included.
AnyAmounts == {-1, 0} \cup Amounts

AnyTransactionBodies ==
    {[type |-> t, amount |-> a, currency |-> c, recipientEmail |-> ""] :
        t \in TransactionTypes \cup {"refund"}, a \in AnyAmounts, c \in {"USD", "US"}}

AnyTransferBodies ==
    {[type |-> "", amount |-> a, currency |-> c, recipientEmail |-> e] :
        a \in AnyAmounts, c \in {"USD", "US"},
        e \in {"a@x.io", "b@x.io", "c@x.io", "d@x.io", "z@x.io", "not-an-email"}}

\* Users 1 and 2 own a wallet; user 3 registered but its wallet insert failed.
\* They are the users authenticateToken lets in (is_active = 1).
AnyUsers == {1, 2, 3}

\* A registered user whose row has is_active = 0.  No route writes the column;
\* the row is deactivated in the database by an operator.
Deactivated == [id |-> 4, email |-> "d@x.io", is_active |-> 0]

InitSerial ==
    /\ users = SeedUsers \cup {Deactivated}
    /\ \E b1, b2 \in 0..InitBalance :
          wallets = [w \in {1, 2, 4} |->
                        SeedWallet(w, IF w = 1 THEN b1 ELSE IF w = 2 THEN b2 ELSE 0)]
    /\ transactions = <<>>
    /\ notifications = <<>>
    /\ uuids = 0
    /\ req = [r \in Req |-> Idle]
    /\ arrived = 0
    /\ pre = Store

NextSerial ==
    \E r \in Req :
        \/ RT_Begin(r, "serial", AnyUsers, AnyTransactionBodies)
        \/ RT_GetWallet(r)
        \/ RT_Insert(r)
        \/ RT_UpdateWallet(r)
        \/ RT_UpdateStatus(r)
        \/ RT_GetTransaction(r)
        \/ RT_Notify(r)
        \/ RT_Catch(r)
        \/ TF_Begin(r, "serial", AnyUsers, AnyTransferBodies)
        \/ TF_GetSenderWallet(r)
        \/ TF_GetRecipient(r)
        \/ TF_GetRecipientWallet(r)
        \/ TF_InsertSender(r)
        \/ TF_InsertRecipient(r)
        \/ TF_UpdateSender(r)
        \/ TF_UpdateRecipient(r)
        \/ TF_NotifySender(r)
        \/ TF_NotifyRecipient(r)
        \/ TF_Catch(r)
        \/ Finish(r)

SpecSerial == InitSerial /\ [][NextSerial]_vars

\* ------------------------- two concurrent recordTransaction(debit, 600) on 1000
InitScenario ==
    /\ users = SeedUsers
    /\ wallets = [w \in {1, 2} |-> SeedWallet(w, 1000)]
    /\ transactions = <<>>
    /\ notifications = <<>>
    /\ uuids = 0
    /\ req = [r \in Req |-> Idle]
    /\ arrived = 0
    /\ pre = Store

Debit600 == [type |-> "debit", amount |-> 600, currency |-> "USD", recipientEmail |-> ""]

NextScenario ==
    \E r \in {1, 2} :
        \/ RT_Begin(r, "concurrent", {1}, {Debit600})
        \/ RT_GetWallet(r)
        \/ RT_Insert(r)
        \/ RT_UpdateWallet(r)
        \/ RT_UpdateStatus(r)
        \/ RT_GetTransaction(r)
        \/ RT_Notify(r)
        \/ RT_Catch(r)

SpecScenario == InitScenario /\ [][NextScenario]_vars

\* ------------------------------------ reads after one ledger operation
\* The handler of a write has returned; the answers of the reads are kept.
FinishWrite(r) ==
    /\ req[r].op \in {"rt", "tf"}
    /\ Finish(r)

\* One recordTransaction or transferFunds (store failures included) runs alone,
\* then getBalance and getStats requests run one after the other.
NextReads ==
    \E r \in Req :
        \/ RT_Begin(r, "serial", WalletOwners, TransactionBodies)
        \/ RT_GetWallet(r)
        \/ RT_Insert(r)
        \/ RT_UpdateWallet(r)
        \/ RT_UpdateStatus(r)
        \/ RT_GetTransaction(r)
        \/ RT_Notify(r)
        \/ RT_Catch(r)
        \/ TF_Begin(r, "serial", WalletOwners, TransferBodies)
        \/ TF_GetSenderWallet(r)
        \/ TF_GetRecipient(r)
        \/ TF_GetRecipientWallet(r)
        \/ TF_InsertSender(r)
        \/ TF_InsertRecipient(r)
        \/ TF_UpdateSender(r)
        \/ TF_UpdateRecipient(r)
        \/ TF_NotifySender(r)
        \/ TF_NotifyRecipient(r)
        \/ TF_Catch(r)
        \/ FinishWrite(r)
        \/ GB_Begin(r, "alone", AnyUsers)
        \/ GB_GetWallet(r)
        \/ GB_Catch(r)
        \/ GS_Begin(r, "alone", AnyUsers)
        \/ GS_GetWallet(r)
        \/ GS_GetStats(r)
        \/ GS_GetRecent(r)
        \/ GS_Catch(r)

SpecReads == Init /\ [][NextReads]_vars

\* ------------------------------------------ accounts: register, demo-login
\* The database as createTables leaves it: no user, no wallet.
InitAuth ==
    /\ users = {}
    /\ wallets = <<>>
    /\ transactions = <<>>
    /\ notifications = <<>>
    /\ uuids = 0
    /\ req = [r \in Req |-> Idle]
    /\ arrived = 0
    /\ pre = Store

AuthEmails == {"a@x.io", "b@x.io", "not-an-email"}

NextAuth ==
    \E r \in Req :
        \/ RG_Begin(r, "concurrent", AuthEmails)
        \/ RG_GetUser(r)
        \/ RG_Hash(r)
        \/ RG_InsertUser(r)
        \/ RG_InsertWallet(r)
        \/ RG_InsertSession(r)
        \/ RG_Catch(r)
        \/ DL_Begin(r, "concurrent", AuthEmails)
        \/ DL_GetUser(r)
        \/ DL_Hash(r)
        \/ DL_InsertUser(r)
        \/ DL_InsertWallet(r)
        \/ DL_Catch(r)

SpecAuth == InitAuth /\ [][NextAuth]_vars

\* ------------------------------------- getStats beside a stream of transactions
\* What the writers of the stream send: user 1 credits 2 or pays 1, user 2 credits 2.
StatsBodies ==
    {[type |-> "credit", amount |-> 2, currency |-> "USD", recipientEmail |-> ""],
     [type |-> "payment", amount |-> 1, currency |-> "USD", recipientEmail |-> ""]}

CreditBodies == {b \in StatsBodies : b.type = "credit"}

\* recordTransaction requests follow one another in slot 1 while getStats
\* requests follow one another in slot 2, interleaved with them at every await.
NextStats ==
    \/ \E r \in {1} :
          \/ RT_Begin(r, "stream", {1}, StatsBodies)
          \/ RT_Begin(r, "stream", {2}, CreditBodies)
          \/ RT_GetWallet(r)
          \/ RT_Insert(r)
          \/ RT_UpdateWallet(r)
          \/ RT_UpdateStatus(r)
          \/ RT_GetTransaction(r)
          \/ RT_Notify(r)
    \/ \E r \in {2} :
          \/ GS_Begin(r, "stream", AnyUsers)
          \/ GS_GetWallet(r)
          \/ GS_GetStats(r)
          \/ GS_GetRecent(r)
          \/ GS_Catch(r)
    \/ \E r \in {1, 2} : Finish(r)

SpecStats == Init /\ [][NextStats]_vars

\* ------------------------------------ reads of a store with several owners
PageLimit == 2      \* the limit a paging GET /transactions asks for

Queries ==
    {[page |-> p, limit |-> l, type |-> ty, currency |-> c] :
        p \in {DefaultPage, DefaultPage + 1}, l \in {PageLimit, DefaultLimit},
        ty \in {"", "credit"}, c \in {"", "USD"}}

ToUser1 == {b \in TransferBodies : b.amount = 1 /\ b.recipientEmail = "a@x.io"}

ToUser2 == {b \in TransferBodies : b.amount = 1 /\ b.recipientEmail = "b@x.io"}

\* Users 1 and 2 record transactions and transfer to each other in slot 1, one
\* request after the other; between two of them a read of any user runs in slot 2.
NextIsolation ==
    \/ \E r \in {1} :
          \/ RT_Begin(r, "quiet", {1}, StatsBodies)
          \/ RT_Begin(r, "quiet", {2}, CreditBodies)
          \/ RT_GetWallet(r)
          \/ RT_Insert(r)
          \/ RT_UpdateWallet(r)
          \/ RT_UpdateStatus(r)
          \/ RT_GetTransaction(r)
          \/ RT_Notify(r)
          \/ TF_Begin(r, "quiet", {1}, ToUser2)
          \/ TF_Begin(r, "quiet", {2}, ToUser1)
          \/ TF_GetSenderWallet(r)
          \/ TF_GetRecipient(r)
          \/ TF_GetRecipientWallet(r)
          \/ TF_InsertSender(r)
          \/ TF_InsertRecipient(r)
          \/ TF_UpdateSender(r)
          \/ TF_UpdateRecipient(r)
          \/ TF_NotifySender(r)
          \/ TF_NotifyRecipient(r)
    \/ \E r \in {2} :
          \/ GB_Begin(r, "quiet", AnyUsers)
          \/ GB_GetWallet(r)
          \/ GB_Catch(r)
          \/ GS_Begin(r, "quiet", AnyUsers)
          \/ GS_GetWallet(r)
          \/ GS_GetStats(r)
          \/ GS_GetRecent(r)
          \/ GS_Catch(r)
          \/ GT_Begin(r, "quiet", AnyUsers, Queries)
          \/ GT_List(r)
          \/ GT_Count(r)
          \/ GT_Catch(r)
          \/ GI_Begin(r, "quiet", AnyUsers, 1..MaxRows)
          \/ GI_Get(r)
          \/ GI_Catch(r)
    \/ \E r \in {1, 2} : Finish(r)

SpecIsolation == Init /\ [][NextIsolation]_vars

\* ================================================================ claims
Done(r) == req[r].pc = "done"

Succeeded(r) == Done(r) /\ req[r].response.code \in {"CREATED", "TRANSFERRED"}

\* The body is what the claim calls malformed for recordTransaction.
MalformedTransaction(body) ==
    \/ body.amount <= 0
    \/ body.type \notin {"credit", "debit", "transfer", "payment"}
    \/ Len(body.currency) # 3

WellFormedTransfer(body) ==
    /\ body.recipientEmail \in WellFormedEmails
    /\ body.amount > 0
    /\ Len(body.currency) = 3

\* ---------------------------------------------------------------- C1
\* C1: in every reachable state of the ledger, under every interleaving of
\* recordTransaction and transferFunds requests at their store accesses, every
\* wallet has balance - frozen_balance >= 0.
C1_AvailableNeverNegative ==
    \A w \in DOMAIN wallets : wallets[w].balance - wallets[w].frozen_balance >= 0

\* Two debits of one wallet both succeeded although their amounts together
\* exceed what the wallet held: both passed the check against the same balance.
C1_Witness ==
    \E r1, r2 \in Req :
        /\ r1 # r2
        /\ req[r1].op = "rt" /\ req[r2].op = "rt"
        /\ req[r1].user = req[r2].user
        /\ req[r1].body.type = "debit" /\ req[r2].body.type = "debit"
        /\ Succeeded(r1) /\ Succeeded(r2)
        /\ req[r1].body.amount + req[r2].body.amount > InitBalance

\* ---------------------------------------------------------------- C2
\* C2: two concurrent recordTransaction(debit, 600) on a wallet holding 1000:
\* in every interleaving (no store failure) exactly one returns success, the
\* other InsufficientBalance, and the stored balance ends at 400.
C2_ExactlyOneDebitSucceeds ==
    (/\ Done(1) /\ Done(2)
     /\ req[1].response.code # "CREATE_ERROR"
     /\ req[2].response.code # "CREATE_ERROR")
    => /\ {req[1].response.code, req[2].response.code} = {"CREATED", "INSUFFICIENT_BALANCE"}
       /\ wallets[1].balance = 400

\* ---------------------------------------------------------------- C3
\* C3: a transferFunds that returns success, run with nothing interleaved,
\* leaves the sender's balance at its balance before minus amount and the
\* recipient's at its balance before plus amount.
C3_TransferMovesAmount ==
    \A r \in Req :
        (Done(r) /\ req[r].op = "tf" /\ req[r].response.code = "TRANSFERRED")
        => LET amount == req[r].body.amount
               sender == WalletOfUserIn(pre.wallets, req[r].user)
               recipient == WalletOfUserIn(pre.wallets,
                                ActiveUserByEmail(req[r].body.recipientEmail))
           IN  /\ wallets[sender.id].balance = sender.balance - amount
               /\ wallets[recipient.id].balance = recipient.balance + amount

SelfTransfer(r) ==
    req[r].op = "tf" /\ EmailOfUser(req[r].user) = req[r].body.recipientEmail

\* ---------------------------------------------------------------- C4
\* The rows a one-at-a-time request has added to transactions.
NewTransactions ==
    {transactions[i] : i \in (Len(pre.transactions) + 1)..Len(transactions)}

\* pre.wallets with amount moved from the sender's wallet to the recipient's.
WalletsAfterTransfer(senderId, recipientId, amount) ==
    LET debited == [pre.wallets EXCEPT ![senderId].balance = @ - amount]
    IN  [debited EXCEPT ![recipientId].balance = @ + amount]

\* C4: once a transferFunds request has ended, with success or with any error
\* (a store failure at any write included), either both legs exist, completed,
\* and both balances are adjusted, or no leg exists and no balance has changed.
\* Stated for transfers between two different users.
C4_TransferAllOrNothing ==
    \A r \in Req :
        (Done(r) /\ req[r].op = "tf" /\ ~SelfTransfer(r))
        => \/ /\ NewTransactions = {}
              /\ wallets = pre.wallets
           \/ /\ Cardinality(NewTransactions) = 2
              /\ \A t \in NewTransactions : t.status = "completed"
              /\ \E t \in NewTransactions : t.metadata.transferType = "outgoing"
              /\ \E t \in NewTransactions : t.metadata.transferType = "incoming"
              /\ \E s, d \in DOMAIN pre.wallets :
                    /\ s # d
                    /\ wallets = WalletsAfterTransfer(s, d, req[r].body.amount)

\* ---------------------------------------------------------------- C5
\* What transfer t has committed, by the awaits it has passed.
SenderLegVisible(t) ==
    /\ req[t].senderTransactionId # 0
    /\ transactions[req[t].senderTransactionId].status = "completed"

RecipientLegVisible(t) ==
    /\ req[t].recipientTransactionId # 0
    /\ transactions[req[t].recipientTransactionId].status = "completed"

SenderDebited(t) == req[t].pc \in {"tf_updateRecipient", "tf_notifySender", "tf_notifyRecipient"}

RecipientCredited(t) == req[t].pc \in {"tf_notifySender", "tf_notifyRecipient"}

\* Transfer t is in flight and applied in part only.
Torn(t) ==
    /\ req[t].op = "tf" /\ InFlight(t)
    /\ \/ SenderDebited(t) # RecipientCredited(t)
       \/ SenderLegVisible(t) /\ ~SenderDebited(t)
       \/ RecipientLegVisible(t) /\ ~RecipientCredited(t)

\* C5: a getBalance of the sender or the recipient of a transfer in flight
\* (between two different users) never reads the store while that transfer is
\* applied in part only.
C5_ReadersNeverSeeTornTransfer ==
    [][\A rd \in Req :
          (/\ req[rd].pc = "gb_getWallet"
           /\ req'[rd].pc = "done"
           /\ req'[rd].response.code = "BALANCE")
          => \A t \in Req :
                (req[rd].user \in {req[t].user, req[t].recipient} /\ ~SelfTransfer(t))
                => ~Torn(t)]_vars

\* ---------------------------------------------------------------- C6
\* The signed change a successful request makes to the balance of user u's wallet.
Delta(r, u) ==
    IF ~Succeeded(r) THEN 0
    ELSE IF req[r].op = "rt"
      THEN IF req[r].user # u THEN 0
           ELSE IF req[r].body.type = "credit" THEN req[r].body.amount
           ELSE 0 - req[r].body.amount
    ELSE (IF req[r].user = u THEN 0 - req[r].body.amount ELSE 0)
         + (IF EmailOfUser(u) = req[r].body.recipientEmail THEN req[r].body.amount ELSE 0)

RECURSIVE SumDelta(_, _)
SumDelta(n, u) == IF n = 0 THEN 0 ELSE Delta(n, u) + SumDelta(n - 1, u)

\* C6: no balance update is lost.  When the requests of a run have all ended
\* in success (none of them a transfer to oneself), every wallet holds its
\* initial balance plus the signed deltas of the operations that touched it.
C6_NoLostUpdate ==
    (/\ \A r \in Req : req[r].pc \in {"idle", "done"}
     /\ \A r \in Req : Done(r) => (Succeeded(r) \/ req[r].op = "gb") /\ ~SelfTransfer(r))
    => \A w \in DOMAIN wallets :
          wallets[w].balance = InitBalance + SumDelta(MaxReq, wallets[w].user_id)

\* ---------------------------------------------------------------- C7
\* C7: a recordTransaction of kind debit, transfer or payment whose amount
\* exceeds the available balance its call reads returns InsufficientBalance
\* carrying exactly that available balance and mutates nothing (no transaction
\* row, no balance change, no notification); a credit is never rejected for
\* insufficient balance.
C7_InsufficientBalanceRejected ==
    \A r \in Req :
        req[r].op = "rt"
        => LET b == req[r].body
               w == WalletOfUserIn(pre.wallets, req[r].user)
               available == w.balance - w.frozen_balance
           IN  /\ (/\ b.type \in {"debit", "transfer", "payment"}
                   /\ b.amount > 0 /\ Len(b.currency) = 3
                   /\ w # NoWallet
                   /\ b.amount > available)
                  => /\ req[r].pc \in {"rt_getWallet", "done"}
                     /\ Store = pre
                     /\ (Done(r) /\ req[r].response.code # "CREATE_ERROR")
                        => /\ req[r].response.status = 400
                           /\ req[r].response.code = "INSUFFICIENT_BALANCE"
                           /\ req[r].response.availableBalance = available
               /\ b.type = "credit" => req[r].response.code # "INSUFFICIENT_BALANCE"

\* A payment above a positive available balance has been rejected.
C7_Witness ==
    \E r \in Req :
        /\ Done(r) /\ req[r].op = "rt" /\ req[r].body.type = "payment"
        /\ req[r].response.code = "INSUFFICIENT_BALANCE"
        /\ req[r].response.availableBalance > 0
        /\ req[r].body.amount > req[r].response.availableBalance

\* ---------------------------------------------------------------- C8
\* C8: a recordTransaction with amount <= 0, a kind outside the four kinds or a
\* currency code not 3 characters long returns ValidationError before any
\* store access: the request never waits on the store, and no table changes,
\* also when the caller has no wallet.
C8_ValidationBeforeStore ==
    \A r \in Req :
        (req[r].op = "rt" /\ MalformedTransaction(req[r].body))
        => /\ Done(r)
           /\ req[r].at = "rt_validate"
           /\ req[r].response.status = 400
           /\ req[r].response.code = "VALIDATION_ERROR"
           /\ Store = pre

\* A caller without a wallet has sent amount 0 and got its answer.
C8_Witness ==
    \E r \in Req :
        /\ Done(r) /\ req[r].op = "rt" /\ req[r].body.amount = 0
        /\ req[r].body.type = "credit" /\ req[r].body.currency = "USD"
        /\ WalletOfUser(req[r].user) = NoWallet
        /\ req[r].response.code = "VALIDATION_ERROR"

\* ---------------------------------------------------------------- C9
NoUserHasEmail(email) == \A x \in users : x.email # email

\* C9 as claimed: a transferFunds whose well-formed recipient email matches no
\* user returns RecipientNotFound for every state of the sender's wallet and
\* every positive amount (no store read failing), the sender's balance unchanged.
C9_AlwaysRecipientNotFound ==
    \A r \in Req :
        (/\ Done(r) /\ req[r].op = "tf"
         /\ WellFormedTransfer(req[r].body)
         /\ NoUserHasEmail(req[r].body.recipientEmail)
         /\ WalletOfUserIn(pre.wallets, req[r].user) # NoWallet
         /\ req[r].response.code # "TRANSFER_ERROR")
        => /\ req[r].response.code = "RECIPIENT_NOT_FOUND"
           /\ WalletOfUser(req[r].user).balance
                = WalletOfUserIn(pre.wallets, req[r].user).balance

\* C9 as amended: such a transfer returns RecipientNotFound when the sender has
\* a wallet whose available balance is at least the amount; it returns the
\* sender's wallet NotFound without a wallet and InsufficientBalance with a
\* smaller available balance.  In each case no table changes.
C9_RecipientNotFoundAfterSenderChecks ==
    \A r \in Req :
        (/\ req[r].op = "tf"
         /\ WellFormedTransfer(req[r].body)
         /\ NoUserHasEmail(req[r].body.recipientEmail))
        => /\ Store = pre
           /\ (Done(r) /\ req[r].response.code # "TRANSFER_ERROR")
              => LET w == WalletOfUserIn(pre.wallets, req[r].user)
                 IN  req[r].response.code =
                        IF w = NoWallet THEN "SENDER_WALLET_NOT_FOUND"
                        ELSE IF w.balance - w.frozen_balance < req[r].body.amount
                          THEN "INSUFFICIENT_BALANCE"
                        ELSE "RECIPIENT_NOT_FOUND"

\* A sender with enough funds has been told the recipient does not exist.
C9_Witness ==
    \E r \in Req :
        /\ Done(r) /\ req[r].op = "tf"
        /\ NoUserHasEmail(req[r].body.recipientEmail)
        /\ req[r].response.code = "RECIPIENT_NOT_FOUND"
        /\ req[r].response.status = 404

\* ---------------------------------------------------------------- C10
\* C10: a transferFunds that fails before its first leg is inserted (validation,
\* sender wallet not found, insufficient balance, recipient not found, recipient
\* wallet not found, or a store failure on one of those reads) leaves every
\* wallet, transaction and notification row as it was before the call.
C10_EarlyFailureChangesNothing ==
    \A r \in Req :
        req[r].op = "tf"
        => /\ req[r].pc \in {"tf_getSenderWallet", "tf_getRecipient", "tf_getRecipientWallet"}
              => Store = pre
           /\ (/\ Done(r)
               /\ \/ req[r].response.code \in
                        {"VALIDATION_ERROR", "SENDER_WALLET_NOT_FOUND", "INSUFFICIENT_BALANCE",
                         "RECIPIENT_NOT_FOUND", "RECIPIENT_WALLET_NOT_FOUND"}
                  \/ /\ req[r].response.code = "TRANSFER_ERROR"
                     /\ req[r].at \in {"tf_getSenderWallet", "tf_getRecipient",
                                       "tf_getRecipientWallet"})
              => Store = pre

\* A transfer to a user whose wallet is missing has been refused.
C10_Witness ==
    \E r \in Req :
        /\ Done(r) /\ req[r].op = "tf"
        /\ req[r].response.code = "RECIPIENT_WALLET_NOT_FOUND"
        /\ req[r].response.status = 404

\* ---------------------------------------------------------------- C11
\* C11: a recordTransaction that passes validation and the balance check, run
\* alone and without store failure, first inserts exactly one pending row for
\* the caller's wallet, then sets the balance to old + amount for a credit and
\* old - amount for a debit, transfer or payment, then sets the row to
\* completed; it answers success and the returned transaction is completed.
C11_RecordTransactionEffect ==
    \A r \in Req :
        (req[r].op = "rt" /\ req[r].pc # "idle")
        => LET b == req[r].body
               w == WalletOfUserIn(pre.wallets, req[r].user)
               n == Len(pre.transactions)
               expected == IF b.type = "credit" THEN w.balance + b.amount
                                                ELSE w.balance - b.amount
               written == [pre.wallets EXCEPT ![w.id].balance = expected]
               oneRow(status) ==
                   /\ Len(transactions) = n + 1
                   /\ SubSeq(transactions, 1, n) = pre.transactions
                   /\ transactions[n + 1].status = status
                   /\ transactions[n + 1].wallet_id = w.id
                   /\ transactions[n + 1].user_id = req[r].user
                   /\ transactions[n + 1].type = b.type
                   /\ transactions[n + 1].amount = b.amount
               accepted ==
                   /\ b.type \in {"credit", "debit", "transfer", "payment"}
                   /\ b.amount > 0 /\ Len(b.currency) = 3
                   /\ w # NoWallet
                   /\ b.type = "credit" \/ w.balance - w.frozen_balance >= b.amount
           IN  /\ req[r].pc = "rt_insert" => Store = pre
               /\ req[r].pc = "rt_updateWallet" => oneRow("pending") /\ wallets = pre.wallets
               /\ req[r].pc = "rt_updateStatus" => oneRow("pending") /\ wallets = written
               /\ req[r].pc \in {"rt_getTransaction", "rt_notify"}
                  => oneRow("completed") /\ wallets = written
               /\ (Done(r) /\ req[r].response.code = "CREATED")
                  => /\ oneRow("completed") /\ wallets = written
                     /\ req[r].response.status = 201
                     /\ req[r].response.transaction = transactions[n + 1]
                     /\ req[r].response.transaction.status = "completed"
                     /\ req[r].response.newBalance = expected
               /\ (Done(r) /\ accepted /\ req[r].response.code # "CREATE_ERROR")
                  => req[r].response.code = "CREATED"

\* A payment within the balance has been recorded and answered.
C11_Witness ==
    \E r \in Req :
        /\ Done(r) /\ req[r].op = "rt" /\ req[r].body.type = "payment"
        /\ req[r].response.code = "CREATED"
        /\ req[r].response.transaction.status = "completed"
        /\ WalletOfUser(req[r].user).balance
             = WalletOfUserIn(pre.wallets, req[r].user).balance - req[r].body.amount

\* ---------------------------------------------------------------- C12
\* C12: getBalance and getStats leave every wallet, transaction and notification
\* row unchanged; two calls of the same one by the same user with no write in
\* between return identical results; the availableBalance reported equals
\* balance - frozenBalance of the caller's wallet row; a user without a wallet
\* gets 404 NotFound.
C12_ReadsChangeNothing ==
    /\ \A r \in Req :
          req[r].op \in {"gb", "gs"}
          => LET w == WalletOfUser(req[r].user)
                 resp == req[r].response
             IN  /\ Store = pre
                 /\ (Done(r) /\ resp.status # 500)
                    => IF w = NoWallet
                         THEN resp.status = 404 /\ resp.code = "WALLET_NOT_FOUND"
                         ELSE /\ resp.status = 200
                              /\ resp.balance = w.balance
                              /\ resp.frozenBalance = w.frozen_balance
                              /\ resp.availableBalance = w.balance - w.frozen_balance
    /\ \A r1, r2 \in Req :
          (/\ Done(r1) /\ Done(r2)
           /\ req[r1].op \in {"gb", "gs"} /\ req[r1].op = req[r2].op
           /\ req[r1].user = req[r2].user
           /\ req[r1].response.status # 500 /\ req[r2].response.status # 500)
          => req[r1].response = req[r2].response

\* The same user has called getStats twice after a transaction was recorded.
C12_Witness ==
    \E r1, r2 \in Req :
        /\ r1 # r2 /\ Done(r1) /\ Done(r2)
        /\ req[r1].op = "gs" /\ req[r2].op = "gs" /\ req[r1].user = req[r2].user
        /\ req[r1].response.status = 200 /\ req[r2].response.status = 200
        /\ Len(req[r1].response.recentTransactions) > 0

\* ---------------------------------------------------------------- C13
\* C13: in every step of every interleaving, no transaction row is deleted, a
\* row that is completed or failed is left exactly as it is, and a pending row
\* changes in its status only, to completed or to failed.
C13_StatusOneWay ==
    [][/\ Len(transactions') >= Len(transactions)
       /\ \A i \in 1..Len(transactions) :
             LET before == transactions[i]
                 after == transactions'[i]
             IN  IF before.status \in {"completed", "failed"}
                   THEN after = before
                   ELSE /\ after = [before EXCEPT !.status = after.status]
                        /\ after.status \in {"pending", "completed", "failed"}]_vars

\* A row went from pending to completed and a later row is still pending.
C13_Witness ==
    \E i, j \in 1..Len(transactions) :
        /\ i < j
        /\ transactions[i].status = "completed" /\ transactions[i].metadata = NoMeta
        /\ transactions[j].status = "pending"

\* ---------------------------------------------------------------- C14
\* C14: once a recordTransaction request has ended, the row it inserted is not
\* pending: it is failed when the balance update or the status update failed
\* at the store, and completed only when the balance was written.
C14_NoPendingRowAfterRequest ==
    \A r \in Req :
        (Done(r) /\ req[r].op = "rt")
        => \A i \in (Len(pre.transactions) + 1)..Len(transactions) :
              LET row == transactions[i]
                  w == WalletOfUserIn(pre.wallets, req[r].user)
                  b == req[r].body
                  expected == IF b.type = "credit" THEN w.balance + b.amount
                                                   ELSE w.balance - b.amount
              IN  /\ row.status \in {"completed", "failed"}
                  /\ row.status = "completed" => wallets[w.id].balance = expected
                  /\ (/\ req[r].response.code = "CREATE_ERROR"
                      /\ req[r].at \in {"rt_updateWallet", "rt_updateStatus"})
                     => row.status = "failed"

\* ---------------------------------------------------------------- C15
NotifyPcs == {"rt_notify", "tf_notifySender", "tf_notifyRecipient"}

\* The rows of transactions and the balances are those the request committed.
LedgerCommitted(r) ==
    LET n == Len(pre.transactions)
        a == req[r].body.amount
        w == WalletOfUserIn(pre.wallets, req[r].user)
    IN  IF req[r].op = "rt"
          THEN /\ Len(transactions) = n + 1
               /\ transactions[n + 1].status = "completed"
               /\ wallets = [pre.wallets EXCEPT ![w.id].balance =
                                IF req[r].body.type = "credit" THEN @ + a ELSE @ - a]
          ELSE /\ Len(transactions) = n + 2
               /\ transactions[n + 1].status = "completed"
               /\ transactions[n + 2].status = "completed"
               /\ ~SelfTransfer(r)
                  => LET peer == WalletOfUserIn(pre.wallets, transactions[n + 1].metadata.peerId)
                     IN  wallets = [pre.wallets EXCEPT ![w.id].balance = @ - a,
                                                       ![peer.id].balance = @ + a]

\* C15: a notification insert is issued only after the balances and the
\* transaction rows of its operation are committed; when it fails, the step
\* that handles the failure changes no wallet and no transaction row, and the
\* request ends with the ledger exactly as committed.
C15_NotificationFailureKeepsLedger ==
    /\ [](\A r \in Req :
            /\ req[r].pc \in NotifyPcs => LedgerCommitted(r)
            /\ (Done(r) /\ req[r].at \in NotifyPcs) => LedgerCommitted(r))
    /\ [][\A r \in Req :
            (req[r].pc \in NotifyPcs /\ req'[r].pc # req[r].pc)
            => wallets' = wallets /\ transactions' = transactions]_vars

\* The second notification of a transfer failed after both balances were written.
C15_Witness ==
    \E r \in Req :
        /\ Done(r) /\ req[r].op = "tf" /\ ~SelfTransfer(r)
        /\ req[r].at = "tf_notifyRecipient"
        /\ req[r].response.code = "TRANSFER_ERROR"
        /\ Len(notifications) = Len(pre.notifications) + 1

\* ---------------------------------------------------------------- C16
\* C16: recordTransaction answers 201 and transferFunds answers 200 only from
\* the end of the handler, with every one of its writes in the store (rows,
\* balances, notifications); a request that ends with part of its writes made
\* is answered 500 with CREATE_ERROR or TRANSFER_ERROR, and these two codes are
\* used for status 500 only.
C16_SuccessOnlyAfterEveryWrite ==
    \A r \in Req :
        (Done(r) /\ req[r].op \in {"rt", "tf"})
        => LET resp == req[r].response
               storeError == IF req[r].op = "rt" THEN "CREATE_ERROR" ELSE "TRANSFER_ERROR"
               wanted == Len(pre.notifications) + (IF req[r].op = "rt" THEN 1 ELSE 2)
           IN  /\ resp.status \in {200, 201}
                  => /\ resp.status = (IF req[r].op = "rt" THEN 201 ELSE 200)
                     /\ req[r].at \in {"rt_respond", "tf_respond"}
                     /\ LedgerCommitted(r)
                     /\ Len(notifications) = wanted
               /\ (Store # pre /\ ~(LedgerCommitted(r) /\ Len(notifications) = wanted))
                  => resp.status = 500 /\ resp.code = storeError
               /\ resp.status = 500 <=> resp.code = storeError
               /\ resp.code \in {"VALIDATION_ERROR", "INSUFFICIENT_BALANCE", "WALLET_NOT_FOUND",
                                 "SENDER_WALLET_NOT_FOUND", "RECIPIENT_NOT_FOUND",
                                 "RECIPIENT_WALLET_NOT_FOUND"}
                  => resp.status \in {400, 404}

\* The status update of a recordTransaction failed after the balance was written.
C16_Witness ==
    \E r \in Req :
        /\ Done(r) /\ req[r].op = "rt"
        /\ req[r].at = "rt_updateStatus"
        /\ req[r].response.status = 500
        /\ req[r].response.code = "CREATE_ERROR"
        /\ wallets # pre.wallets

\* ---------------------------------------------------------------- C17
\* C17: whenever no register or demo-login request is being handled, every user
\* row has exactly one wallet row, and every wallet has the balance 0 and the
\* frozen balance 0 it was created with.
C17_OneZeroWalletPerUser ==
    (\A r \in Req : ~InFlight(r))
    => /\ \A u \in users :
             Cardinality({w \in DOMAIN wallets : wallets[w].user_id = u.id}) = 1
       /\ \A w \in DOMAIN wallets :
             wallets[w].balance = 0 /\ wallets[w].frozen_balance = 0

\* ---------------------------------------------------------------- C18
\* The sum of the amounts of the rows of transactions at the positions in S.
RECURSIVE AmountOver(_)
AmountOver(S) ==
    IF S = {} THEN 0
    ELSE LET i == CHOOSE x \in S : TRUE
         IN  transactions[i].amount + AmountOver(S \ {i})

\* The sum of the counts a getStats answer reports for the kinds in K.
RECURSIVE CountOver(_, _)
CountOver(byKind, K) ==
    IF K = {} THEN 0
    ELSE LET k == CHOOSE x \in K : TRUE
         IN  byKind[k].count + CountOver(byKind, K \ {k})

C19_AmountsPositive ==
    \A i \in 1..Len(transactions) : transactions[i].amount > 0

\* Both legs of a transfer are stored.
C19_Witness ==
    /\ Len(transactions) = 2
    /\ transactions[1].metadata.transferType = "outgoing"
    /\ transactions[2].metadata.transferType = "incoming"
    /\ transactions[2].amount = transactions[1].amount

\* ---------------------------------------------------------------- C20
\* C20: in no state, states left by a store failure included, is a row of
\* transactions completed while its balance delta (+amount for a credit,
\* -amount otherwise) has not been written to its wallet.  Stated for requests
\* run one at a time and for transfers between two different users.
C20_CompletedOnlyAfterBalanceWrite ==
    \A r \in Req :
        (req[r].op \in {"rt", "tf"} /\ req[r].pc # "idle" /\ ~SelfTransfer(r))
        => \A i \in (Len(pre.transactions) + 1)..Len(transactions) :
              LET row == transactions[i]
                  delta == IF row.type = "credit" THEN row.amount ELSE 0 - row.amount
              IN  row.status = "completed"
                  => wallets[row.wallet_id].balance
                       = pre.wallets[row.wallet_id].balance + delta

\* ----------------------------------------------------------------------- C21
\* The rows stored under the correlation reference of a transfer.
LegsOf(ref) == {i \in DOMAIN transactions : transactions[i].reference = ref}

\* The correlation reference a transfer has drawn, 0 before it draws one.
ReferenceOf(r) ==
    IF req[r].op # "tf" THEN 0
    ELSE IF Done(r) THEN req[r].response.uuid
    ELSE req[r].transferUuid

\* C21: a successful transfer has stored exactly two rows under the reference
\* it returns: the sender's leg (kind transfer, the sender's wallet and user,
\* tagged outgoing, naming the recipient) and the recipient's leg (kind
\* credit, the recipient's wallet and user, tagged incoming, naming the
\* sender), both with the amount and currency of the request; and two
\* transfers never hold the same reference.
C21_TwoLegsOneReference ==
    /\ \A r \in Req :
          (Done(r) /\ req[r].op = "tf" /\ req[r].response.code = "TRANSFERRED") =>
             LET ref == req[r].response.uuid
                 b == req[r].body
                 sender == req[r].user
                 recipient == CHOOSE x \in users : x.email = b.recipientEmail
                 legs == LegsOf(ref)
             IN  /\ ref > 0
                 /\ Cardinality(legs) = 2
                 /\ \E o, i \in legs :
                       /\ o < i
                       /\ transactions[o].type = "transfer"
                       /\ transactions[o].wallet_id = WalletOfUser(sender).id
                       /\ transactions[o].user_id = sender
                       /\ transactions[o].metadata = [transferType |-> "outgoing",
                                                      peerId |-> recipient.id]
                       /\ transactions[i].type = "credit"
                       /\ transactions[i].wallet_id = WalletOfUser(recipient.id).id
                       /\ transactions[i].user_id = recipient.id
                       /\ transactions[i].metadata = [transferType |-> "incoming",
                                                      peerId |-> sender]
                       /\ \A k \in {o, i} : /\ transactions[k].amount = b.amount
                                            /\ transactions[k].currency = b.currency
    /\ \A r1, r2 \in Req :
          (r1 # r2 /\ ReferenceOf(r1) > 0 /\ ReferenceOf(r2) > 0) =>
             ReferenceOf(r1) # ReferenceOf(r2)

\* Two transfers have succeeded, one of them to the other user's wallet.
C21_Witness ==
    /\ \A r \in Req : Done(r) /\ req[r].op = "tf" /\ req[r].response.code = "TRANSFERRED"
    /\ \E r \in Req : ~SelfTransfer(r)
    /\ Len(transactions) = 4

\* ----------------------------------------------------------------------- C22
\* The first precondition of transferFunds that fails for this body and sender
\* on these tables, in the claimed order; "TRANSFERRED" when none fails.
FirstFailure(body, sender, us, ws) ==
    LET w == WalletOfUserIn(ws, sender)
        active == {x \in us : x.email = body.recipientEmail /\ x.is_active = 1}
    IN  IF ~WellFormedTransfer(body) THEN "VALIDATION_ERROR"
        ELSE IF w = NoWallet THEN "SENDER_WALLET_NOT_FOUND"
        ELSE IF w.balance - w.frozen_balance < body.amount THEN "INSUFFICIENT_BALANCE"
        ELSE IF active = {} THEN "RECIPIENT_NOT_FOUND"
        ELSE IF \A x \in active : WalletOfUserIn(ws, x.id) = NoWallet
          THEN "RECIPIENT_WALLET_NOT_FOUND"
        ELSE "TRANSFERRED"

\* The positions of transferFunds from the recipient lookup onwards.
PastSenderChecks ==
    {"tf_getRecipient", "tf_getRecipientWallet", "tf_respond"} \cup TF_WritePcs

\* C22: a transferFunds on which no store access fails answers with the first
\* failing precondition in the order ValidationError, sender wallet NotFound,
\* InsufficientBalance, RecipientNotFound (the email of a user with
\* is_active = 0 counts as unknown), RecipientWalletNotFound; and the handler
\* gets to the recipient lookup only with a sender wallet whose available
\* balance covers the amount.
C22_FirstFailingPrecondition ==
    \A r \in Req :
        req[r].op = "tf"
        => /\ (Done(r) /\ req[r].response.code # "TRANSFER_ERROR")
              => req[r].response.code =
                    FirstFailure(req[r].body, req[r].user, users, pre.wallets)
           /\ (req[r].pc \in PastSenderChecks \/ (Done(r) /\ req[r].at \in PastSenderChecks))
              => LET w == WalletOfUserIn(pre.wallets, req[r].user)
                 IN  w # NoWallet /\ w.balance - w.frozen_balance >= req[r].body.amount

\* A sender with enough funds has named the deactivated user and has been
\* told the recipient does not exist.
C22_Witness ==
    \E r \in Req :
        /\ Done(r) /\ req[r].op = "tf"
        /\ req[r].body.recipientEmail = Deactivated.email
        /\ req[r].response.status = 404
        /\ req[r].response.code = "RECIPIENT_NOT_FOUND"
        /\ req[r].at = "tf_getRecipient"

\* ----------------------------------------------------------------------- C23
\* The notifications a one-at-a-time request has added.
NewNotifications ==
    [i \in 1..(Len(notifications) - Len(pre.notifications)) |->
        notifications[Len(pre.notifications) + i]]

\* The users the new notifications are addressed to, in the order written.
NotifiedUsers == [i \in DOMAIN NewNotifications |-> NewNotifications[i].user_id]

\* The error codes of the precondition checks of the two operations.
PreconditionErrors ==
    {"VALIDATION_ERROR", "WALLET_NOT_FOUND", "SENDER_WALLET_NOT_FOUND",
     "INSUFFICIENT_BALANCE", "RECIPIENT_NOT_FOUND", "RECIPIENT_WALLET_NOT_FOUND"}

\* The ledger writes of the request are in the store: its rows are completed
\* and the balances are the ones its wallet updates set.
LedgerWritten(r) ==
    LET b == req[r].body
        w == WalletOfUserIn(pre.wallets, req[r].user)
    IN  /\ \A t \in NewTransactions : t.status = "completed"
        /\ IF req[r].op = "rt"
             THEN /\ Cardinality(NewTransactions) = 1
                  /\ wallets = [pre.wallets EXCEPT ![w.id].balance =
                                    IF b.type = "credit" THEN w.balance + b.amount
                                                         ELSE w.balance - b.amount]
             ELSE LET rid == CHOOSE x \in users : x.email = b.recipientEmail
                      rw == WalletOfUserIn(pre.wallets, rid.id)
                      debited == [pre.wallets EXCEPT ![w.id].balance = w.balance - b.amount]
                  IN  /\ Cardinality(NewTransactions) = 2
                      /\ wallets = [debited EXCEPT ![rw.id].balance = rw.balance + b.amount]

\* C23: a successful recordTransaction has written exactly one notification, of
\* kind payment, for the caller; a successful transferFunds exactly one for
\* the sender and one for the recipient; whenever a notification of the
\* request is in the store, its transaction rows are completed and the
\* balances updated; and a request that ends in ValidationError, NotFound,
\* InsufficientBalance, RecipientNotFound or RecipientWalletNotFound has
\* written none.
C23_NotificationsFollowCompletion ==
    \A r \in Req :
        req[r].op \in {"rt", "tf"}
        => /\ (Done(r) /\ req[r].response.code = "CREATED")
              => NotifiedUsers = <<req[r].user>>
           /\ (Done(r) /\ req[r].response.code = "TRANSFERRED")
              => NotifiedUsers =
                    <<req[r].user,
                      (CHOOSE x \in users : x.email = req[r].body.recipientEmail).id>>
           /\ \A i \in DOMAIN NewNotifications : NewNotifications[i].type = "payment"
           /\ Len(NewNotifications) > 0 => LedgerWritten(r)
           /\ (Done(r) /\ req[r].response.code \in PreconditionErrors)
              => Len(NewNotifications) = 0

\* A transfer to another user has succeeded and both notifications are stored.
C23_Witness ==
    \E r \in Req :
        /\ Done(r) /\ req[r].op = "tf" /\ ~SelfTransfer(r)
        /\ req[r].response.code = "TRANSFERRED"
        /\ Len(notifications) = Len(pre.notifications) + 2

\* ----------------------------------------------------------------------- C24
\* The step is the last wallet write of request r.
LastWalletWrite(r) ==
    \/ req[r].pc = "rt_updateWallet" /\ req'[r].pc = "rt_updateStatus"
    \/ req[r].pc = "tf_updateRecipient" /\ req'[r].pc = "tf_notifySender"

\* The newBalance the handler of r goes on to return.
ReturnedBalance(r) ==
    IF req[r].op = "rt" THEN req[r].newBalance
                        ELSE req[r].wallet.balance - req[r].body.amount

\* C24: when the last wallet write of a recordTransaction or of a transferFunds
\* between two different users completes, the balance stored in the caller's
\* wallet row is the newBalance the request returns on success, whatever other
\* requests are interleaved with it.
C24_NewBalanceIsStoredBalance ==
    [][\A r \in Req :
          /\ (LastWalletWrite(r) /\ ~SelfTransfer(r))
             => wallets'[req[r].wallet.id].balance = ReturnedBalance(r)
          /\ (req[r].pc \in {"rt_notify", "tf_notifyRecipient"} /\ Succeeded(r)')
             => req'[r].response.newBalance = ReturnedBalance(r)]_vars

\* ----------------------------------------------------------------------- C25
\* The signed amount row t contributes to the audited balance of wallet w.
AuditAmount(t, w) ==
    IF t.wallet_id # w \/ t.status # "completed" THEN 0
    ELSE IF t.type = "credit" THEN t.amount
    ELSE 0 - t.amount

\* The sum of the contributions of the first n rows of transactions.
RECURSIVE AuditSum(_, _)
AuditSum(n, w) ==
    IF n = 0 THEN 0 ELSE AuditAmount(transactions[n], w) + AuditSum(n - 1, w)

\* C25: whenever no request is in flight, every wallet's stored balance is its
\* initial balance plus its completed credits minus its completed debits,
\* transfers and payments, under every interleaving of recordTransaction and
\* transferFunds and with store failures at any step.
C25_BalanceMatchesLedger ==
    (\A r \in Req : ~InFlight(r))
    => \A w \in DOMAIN wallets :
          wallets[w].balance = InitBalance + AuditSum(Len(transactions), w)

\* ----------------------------------------------------------------------- C26
\* The sum of the balances of the wallets ws with ids in S.
RECURSIVE BalanceOver(_, _)
BalanceOver(ws, S) ==
    IF S = {} THEN 0
    ELSE LET w == CHOOSE x \in S : TRUE
         IN  ws[w].balance + BalanceOver(ws, S \ {w})

TotalBalance(ws) == BalanceOver(ws, DOMAIN ws)

\* C26: a successful transferFunds, run with nothing interleaved, leaves the sum
\* of all wallet balances as it was, whoever the sender and whichever the
\* recipient email; a successful recordTransaction changes the sum by +amount
\* for a credit and by -amount for a debit, transfer or payment.
C26_TransferConservesTotal ==
    \A r \in Req :
        /\ (Done(r) /\ req[r].response.code = "TRANSFERRED")
           => TotalBalance(wallets) = TotalBalance(pre.wallets)
        /\ (Done(r) /\ req[r].response.code = "CREATED")
           => TotalBalance(wallets) = TotalBalance(pre.wallets)
                 + (IF req[r].body.type = "credit" THEN req[r].body.amount
                                                   ELSE 0 - req[r].body.amount)

\* ----------------------------------------------------------------------- C27
\* C27: a successful transferFunds whose recipient email is the sender's own,
\* run with nothing interleaved, leaves the balance of the sender's wallet as
\* it was before the call, and the newBalance it returns is that stored balance.
C27_SelfTransferKeepsBalance ==
    \A r \in Req :
        (Done(r) /\ SelfTransfer(r) /\ req[r].response.code = "TRANSFERRED")
        => /\ WalletOfUser(req[r].user).balance
                = WalletOfUserIn(pre.wallets, req[r].user).balance
           /\ req[r].response.newBalance = WalletOfUser(req[r].user).balance

\* ----------------------------------------------------------------------- C28
\* C28: when a recordTransaction or a transferFunds, run with nothing
\* interleaved, has returned an error response (400, 404 or 500), every
\* wallet's balance is what it was before the call.
C28_ErrorMeansNoBalanceChange ==
    \A r \in Req :
        (Done(r) /\ req[r].op \in {"rt", "tf"} /\ req[r].response.status \in {400, 404, 500})
        => \A w \in DOMAIN wallets : wallets[w].balance = pre.wallets[w].balance

\* ----------------------------------------------------------------------- C29
\* The users whose wallet the step of request r may write: the caller, and for
\* a transfer the active user the recipient email resolves to.
MayWrite(r) ==
    IF req[r].op = "rt" THEN {req[r].user}
    ELSE IF req[r].op = "tf"
      THEN {req[r].user} \cup
           {x.id : x \in {y \in users : y.email = req[r].body.recipientEmail /\ y.is_active = 1}}
    ELSE {}

\* C29: no step creates or deletes a wallet or changes a wallet's id, user_id,
\* currency or frozen_balance; a step changes the balance of a wallet only as
\* a step of a recordTransaction by the wallet's owner, or of a transferFunds
\* whose caller or resolved recipient is the wallet's owner.
C29_WalletFrame ==
    [][/\ DOMAIN wallets' = DOMAIN wallets
       /\ \A w \in DOMAIN wallets :
             /\ wallets'[w] = [wallets[w] EXCEPT !.balance = wallets'[w].balance]
             /\ wallets'[w].balance # wallets[w].balance
                => \E r \in Req : /\ req'[r] # req[r]
                                  /\ wallets[w].user_id \in MayWrite(r)]_vars

\* A transfer from one user to another has moved both balances and left the
\* third wallet as it was.
C29_Witness ==
    \E r \in Req :
        /\ Done(r) /\ req[r].op = "tf" /\ ~SelfTransfer(r)
        /\ req[r].response.code = "TRANSFERRED"
        /\ \E a, b, c \in DOMAIN wallets :
              /\ a # b /\ a # c /\ b # c
              /\ wallets[a].balance < pre.wallets[a].balance
              /\ wallets[b].balance > pre.wallets[b].balance
              /\ wallets[c] = pre.wallets[c]

\* ----------------------------------------------------------------------- C30
ReadOps == {"gb", "gs", "gt", "gi"}

\* The rows of user u alone in the tables a read found on arrival: what two
\* stores have in common when they agree on u's wallet and transactions.
OwnWallets(u) ==
    [w \in {x \in DOMAIN pre.wallets : pre.wallets[x].user_id = u} |-> pre.wallets[w]]

OwnTransactions(u) == SelectSeq(pre.transactions, LAMBDA t : t.user_id = u)

\* The answer of the read r when its queries run, none of them failing, on the
\* wallets ws and the transactions txs.
AnswerOn(r, ws, txs) ==
    LET u == req[r].user
        w == WalletOfUserIn(ws, u)
        onWallet == [NoResponse EXCEPT !.status = 200,
                         !.balance = w.balance, !.frozenBalance = w.frozen_balance,
                         !.availableBalance = w.balance - w.frozen_balance]
    IN  CASE req[r].op = "gb" ->
               IF w = NoWallet THEN Error(404, "WALLET_NOT_FOUND")
               ELSE [onWallet EXCEPT !.code = "BALANCE"]
          [] req[r].op = "gs" ->
               IF w = NoWallet THEN Error(404, "WALLET_NOT_FOUND")
               ELSE LET stats == CompletedByTypeIn(txs, u)
                    IN  [onWallet EXCEPT !.code = "STATS",
                             !.transactionTypes = stats,
                             !.totalTransactions = SumCount(stats, DOMAIN stats),
                             !.recentTransactions = RecentOfIn(txs, u)]
          [] req[r].op = "gt" ->
               LET q == req[r].query
                   total == CountIn(txs, ws, u, q)
               IN  [NoResponse EXCEPT !.status = 200, !.code = "TRANSACTIONS",
                        !.transactions = ListIn(txs, ws, u, q),
                        !.pagination = [page |-> q.page, limit |-> q.limit, total |-> total,
                                        pages |-> Pages(total, q.limit)]]
          [] req[r].op = "gi" ->
               LET t == ByIdIn(txs, ws, u, req[r].id)
               IN  IF t = NoTx THEN Error(404, "NOT_FOUND")
                   ELSE [NoResponse EXCEPT !.status = 200, !.code = "TRANSACTION",
                             !.view = ViewOf(t)]

\* C30: the answer of getBalance, getStats, GET /transactions and
\* GET /transactions/:id to user A is the answer the same request gets on a
\* store that holds A's wallet and A's transactions and nothing else, so that
\* two stores that agree on A's rows give the same answer; every row that
\* GET /transactions returns is a row of A; and GET /transactions/:id answers
\* NotFound for the id of a row of another user.
C30_ReadsSeeOwnRowsOnly ==
    \A r \in Req :
        (Done(r) /\ req[r].op \in ReadOps /\ req[r].response.status # 500)
        => LET u == req[r].user
               resp == req[r].response
           IN  /\ resp = AnswerOn(r, OwnWallets(u), OwnTransactions(u))
               /\ \A i \in DOMAIN resp.transactions :
                     /\ resp.transactions[i].id \in DOMAIN pre.transactions
                     /\ pre.transactions[resp.transactions[i].id].user_id = u
               /\ (/\ req[r].op = "gi"
                    /\ req[r].id \in DOMAIN pre.transactions
                    /\ pre.transactions[req[r].id].user_id # u)
                  => resp.status = 404 /\ resp.code = "NOT_FOUND"

\* In a store that holds rows of both users, a user has asked for the id of a
\* row of the other user and has been told it does not exist.
C30_Witness ==
    \E r \in Req :
        /\ Done(r) /\ req[r].op = "gi"
        /\ req[r].id \in DOMAIN pre.transactions
        /\ pre.transactions[req[r].id].user_id # req[r].user
        /\ \E i \in DOMAIN pre.transactions : pre.transactions[i].user_id = req[r].user
        /\ req[r].response.code = "NOT_FOUND"
====
